---- MODULE Spec2Model ----
(***************************************************************************)
(* FetchClient (src/src/fetch-client.ts): the execution loop of one fetch  *)
(* call -- pre-send hooks, transport invocation with or without timeout,   *)
(* post-receive hooks, error classification, the catch handler, retry      *)
(* evaluation, the retry delay and response decoration.                    *)
(*                                                                         *)
(* One action is one run of the call between two suspension points (an     *)
(* await of a hook, of the transport or of the delay timer), or one event  *)
(* of the environment (the timeout timer firing, the caller aborting).     *)
(* What the transport, the hooks and the retry predicate answer is input,  *)
(* drawn with \E where they answer.                                        *)
(*                                                                         *)
(* Around the call: the defaults snapshot and setDefaults with its merge   *)
(* strategies and change notification, the built-in header and query       *)
(* merges, URL resolution, and the request the call builds from them.      *)
(***************************************************************************)
EXTENDS Integers, Sequences, FiniteSets, TLC

\* ---------------------------------------------------------------- bounds
MaxLimit == 2          \* largest retry limit tried (limits run from -1)
MaxHooks == 1          \* largest number of registered hooks, both kinds together
MaxBefore == 2         \* largest number of pre-send hooks where only they vary
MaxUpdates == 2        \* largest number of setDefaults calls after construction
MaxListeners == 2      \* largest number of onDefaultsChanged listeners
MaxLen == 2            \* longest HeadersInit / URLSearchParamsInit merged
MaxOps == 3            \* largest number of hook registry operations

\* ------------------------------------------------------ program constants
DEFAULT_TIMEOUT == 10000
TimeoutOff == -1       \* stands for `timeout: false`

VARIABLES
    defaults,   \* this.defaults: the stored snapshot
    listeners,  \* the onDefaultsChanged listeners, in insertion order
    history,    \* what setDefaults has done: merges run, notifications made,
                \*   snapshot identities handed out, the object last passed in
    merge,      \* a built-in merge applied to two arguments, and its result
    input,      \* the arguments of the fetch call: url, baseUrl, searchParams,
                \*   isResponseError
    hooks,      \* this.hooks: [beforeRequest, afterResponse], insertion-ordered
    config,     \* what the call resolves from defaults and call options:
                \*   retry (request.retry ?? defaults.retry), timeout, body kind
    signal,     \* the caller's AbortSignal (request.signal)
    locked,     \* request.body.locked of a ReadableStream body
    call,       \* the locals of the running fetch call and what it has done
    ops,        \* the hook registry operations made: how many, the last one,
                \*   the (kind, callback) pairs addHook has returned a remover for
    peer        \* a second fetch call of the same client, suspended while the
                \*   first runs: its call, config, signal and locked

vars == <<defaults, listeners, history, merge, input,
          hooks, config, signal, locked, call, ops, peer>>

\* the client's configuration side, the call's arguments, and what a running
\* call never touches
store == <<defaults, listeners, history, merge, input, ops, peer>>

\* ------------------------------------------------------------------ values
\* the members of a Set, listed in insertion order
Members(set) == {set[i] : i \in DOMAIN set}

\* retry: false
NoRetry == [active |-> FALSE, limit |-> 0, delay |-> "unset", retryOn |-> "unset"]

\* FetchClientRetryOptions: limit, delay?: number | function, retryOn?: function
RetryOptions ==
    [active : {TRUE}, limit : (-1)..MaxLimit,
     delay : {"unset", "number", "function"}, retryOn : {"unset", "function"}]

Timeouts == {TimeoutOff, DEFAULT_TIMEOUT}

\* AbortSignal states: no signal, not aborted, or aborted with a reason
AbortReasons == {"AbortError", "CustomReason"}

NoError == [name |-> "undefined", at |-> 0, response |-> 0,
            status |-> 0, statusText |-> "", request |-> 0]
NoResponse == [id |-> 0, ok |-> FALSE, status |-> 0, statusText |-> ""]

\* the statuses the transport's responses carry, and their status texts
Statuses == {200, 404}
StatusText(status) == IF status = 200 THEN "OK" ELSE "Not Found"

\* a Response: its identity, status, statusText and ok (status in 200..299)
Response(id, status) ==
    [id |-> id, ok |-> status \in 200..299, status |-> status,
     statusText |-> StatusText(status)]

\* An error value: its name, the transport invocation it belongs to (0: a
\* reason object the caller made) and the response id a FetchClientError carries
Err(name, at, resp) ==
    [name |-> name, at |-> at, response |-> resp,
     status |-> 0, statusText |-> "", request |-> 0]

\* new FetchClientError(message, request, response): name, response, request,
\* status = response.status, statusText = response.statusText
FetchClientError(at, request, response) ==
    [name |-> "FetchClientError", at |-> at, response |-> response.id,
     status |-> response.status, statusText |-> response.statusText,
     request |-> request]

\* signal.reason of an aborted signal, as the transport rejects with it
ReasonError(reason, at) ==
    IF reason = "FetchClientTimeoutError"
    THEN Err("FetchClientTimeoutError", at, 0)
    ELSE Err(reason, 0, 0)

\* variant: the loop bound taken one too high
maxAttempts_OneMore ==
    IF config.retry.active THEN config.retry.limit + 1 ELSE 0

\* const maxAttempts = retryOptions ? retryOptions.limit : 0
maxAttempts == IF config.retry.active THEN config.retry.limit ELSE 0

\* private defaultIsResponseError(response) { return !response.ok }
defaultIsResponseError(response) == ~response.ok

\* the predicates a caller may supply: one that takes only 5xx statuses for
\* errors, one that takes every response for an error; "unset" is undefined
\* and "builtin" the method above
Predicates == {"serverErrors", "everyResponse"}

Apply(predicate, response) ==
    CASE predicate = "serverErrors" -> response.status >= 500
      [] predicate = "everyResponse" -> TRUE
      [] OTHER -> defaultIsResponseError(response)

\* variant: the defaults predicate is asked before the call's own
ActivePredicate_DefaultsFirst(c) ==
    IF defaults.isResponseError # "unset" THEN defaults.isResponseError
    ELSE IF c.isResponseError # "unset" THEN c.isResponseError
    ELSE "builtin"

\* request.isResponseError ?? this.defaults.isResponseError
\*   ?? this.defaultIsResponseError
ActivePredicate(c) ==
    IF c.isResponseError # "unset" THEN c.isResponseError
    ELSE IF defaults.isResponseError # "unset" THEN defaults.isResponseError
    ELSE "builtin"

\* isResponseError(response), with the predicate so resolved
isResponseError(c, response) == Apply(ActivePredicate(c), response)

\* variant: the stream check left out
isBodyUnusable_Never(lk) == FALSE

\* this.isReadableStream(request.body) && request.body.locked === true
isBodyUnusable(lk) == config.body = "stream" /\ lk

\* the signal the transport is given: request.signal itself without a timeout,
\* AbortSignal.any([controller.signal, input.signal]) with one
TransportSignal(c) == IF config.timeout = TimeoutOff THEN signal ELSE c.anySignal

\* the states of an aborted signal, named by the reason
Aborted == AbortReasons \cup {"FetchClientTimeoutError"}

Terminal == {"resolved", "rejected"}

\* ---------------------------------------------------- headers and queries
\* header names as callers write them, the lower-cased name Headers stores
\* them under, and the lower-cased names in the order Headers iterates (sorted)
HeaderNames == {"X-A", "x-a", "x-b"}
Lower(name) == IF name = "X-A" THEN "x-a" ELSE name
SortedNames == <<"x-a", "x-b">>

\* a header value is the list of the values given, which Headers joins by ", "
HeaderValues == {<<1>>, <<2>>}

\* undefined, where a HeadersInit or a URLSearchParamsInit is expected
Undefined == <<<<"undefined", <<0>>>>>>

\* a Headers object: lower-cased name -> value
EmptyHeaders == [k \in {} |-> <<>>]

\* Headers.append: a name already present gets the value joined to its own
HeadersAppend(h, name, value) ==
    IF Lower(name) \in DOMAIN h
    THEN [h EXCEPT ![Lower(name)] = @ \o value]
    ELSE (Lower(name) :> value) @@ h

\* Headers.set: the value replaces what the name had
HeadersSet(h, name, value) ==
    IF Lower(name) \in DOMAIN h
    THEN [h EXCEPT ![Lower(name)] = value]
    ELSE (Lower(name) :> value) @@ h

\* new Headers(init): every pair of init is appended
RECURSIVE FillHeaders(_, _)
FillHeaders(h, init) ==
    IF init = <<>> THEN h
    ELSE FillHeaders(HeadersAppend(h, Head(init)[1], Head(init)[2]), Tail(init))

NewHeaders(init) ==
    IF init = Undefined THEN EmptyHeaders ELSE FillHeaders(EmptyHeaders, init)

\* headers.entries() / forEach: sorted by name, one pair per name
RECURSIVE EntriesFrom(_, _)
EntriesFrom(h, names) ==
    IF names = <<>> THEN <<>>
    ELSE (IF Head(names) \in DOMAIN h
          THEN <<<<Head(names), h[Head(names)]>>>> ELSE <<>>)
         \o EntriesFrom(h, Tail(names))

HeadersEntries(h) == EntriesFrom(h, SortedNames)

\* new Headers(b).forEach((value, key) => merged.set(key, value))
RECURSIVE SetEach(_, _)
SetEach(merged, entries) ==
    IF entries = <<>> THEN merged
    ELSE SetEach(HeadersSet(merged, Head(entries)[1], Head(entries)[2]),
                 Tail(entries))

\* private defaultMergeHeaders(a, b)
defaultMergeHeaders(a, b) ==
    SetEach(NewHeaders(a), HeadersEntries(NewHeaders(b)))

\* query keys (case matters) and values
ParamKeys == {"a", "A"}
ParamValues == {<<1>>, <<2>>, <<3>>}

\* new URLSearchParams(init): the list of init's pairs
NewURLSearchParams(init) == IF init = Undefined THEN <<>> ELSE init

\* URLSearchParams.delete(key): every pair of that key goes
ParamsDelete(params, key) ==
    SelectSeq(params, LAMBDA entry : entry[1] # key)

\* bParams.forEach: the first pair of a key clears the key in merged, every
\* pair is appended
RECURSIVE ClearAndAppend(_, _, _)
ClearAndAppend(merged, bParams, keysCleared) ==
    IF bParams = <<>> THEN merged
    ELSE LET key == Head(bParams)[1]
         IN  ClearAndAppend(
                Append(IF key \in keysCleared THEN merged
                       ELSE ParamsDelete(merged, key), Head(bParams)),
                Tail(bParams), keysCleared \cup {key})

\* variant: the key is cleared for every incoming pair
RECURSIVE ClearAndAppend_EveryPair(_, _)
ClearAndAppend_EveryPair(merged, bParams) ==
    IF bParams = <<>> THEN merged
    ELSE ClearAndAppend_EveryPair(
            Append(ParamsDelete(merged, Head(bParams)[1]), Head(bParams)),
            Tail(bParams))

defaultMergeSearchParams_EveryPair(a, b) ==
    IF b = Undefined THEN NewURLSearchParams(a)
    ELSE ClearAndAppend_EveryPair(NewURLSearchParams(a), NewURLSearchParams(b))

\* private defaultMergeSearchParams(a, b)
defaultMergeSearchParams(a, b) ==
    IF b = Undefined THEN NewURLSearchParams(a)
    ELSE ClearAndAppend(NewURLSearchParams(a), NewURLSearchParams(b), {})

\* the strategies a caller may supply for either merge: one that keeps only
\* the incoming side, one that returns an empty collection
Strategies == {"incomingOnly", "none"}

\* a header merge strategy applied: the Headers object it returns
MergeHeadersWith(strategy, a, b) ==
    CASE strategy = "incomingOnly" -> NewHeaders(b)
      [] strategy = "none" -> EmptyHeaders
      [] OTHER -> defaultMergeHeaders(a, b)

\* a query merge strategy applied: the URLSearchParams object it returns
MergeSearchParamsWith(strategy, a, b) ==
    CASE strategy = "incomingOnly" -> NewURLSearchParams(b)
      [] strategy = "none" -> <<>>
      [] OTHER -> defaultMergeSearchParams(a, b)

\* ------------------------------------------------------------------- URLs
\* base URLs (baseUrl of the defaults or of the call), "unset" when undefined
BaseUrls == {"https://api.default.com", "https://api.custom.com"}

\* what a call may pass as its URL: the empty string, a relative reference, an
\* absolute URL string or a URL object, the last three with or without an
\* embedded query
UrlKinds == {"empty", "relative", "absolute", "object"}

\* a URL value: origin, path and the query as its list of pairs; the keys and
\* values here hold no reserved character, so that URLSearchParams.toString
\* and the URL's parse of its search string keep the pairs as they are.
\* error names the exception thrown where a URL was expected
Url(origin, path, search) ==
    [error |-> "none", origin |-> origin, path |-> path, search |-> search]

Throws(error) ==
    [error |-> error, origin |-> "", path |-> "", search |-> <<>>]

NoUrl == Url("", "", <<>>)

\* new URL(url) and new URL(url, baseUrl) of a string: an absolute string is
\* taken as it is, a relative one against the base, and without a base is
\* a TypeError
NewUrl(url, baseUrl) ==
    CASE url.kind = "absolute" -> Url("https://absolute.example", "/path", url.search)
      [] url.kind = "relative" /\ baseUrl # "unset" -> Url(baseUrl, "/users", url.search)
      [] url.kind = "empty" /\ baseUrl # "unset" -> Url(baseUrl, "/", <<>>)
      [] OTHER -> Throws("TypeError: Invalid URL")

\* variant: the base wins over an absolute URL string
defaultResolveUrl_Rebases(url, baseUrl) ==
    IF url.kind = "object"
    THEN Url("https://absolute.example", "/path", url.search)
    ELSE IF url.kind = "empty"
         THEN IF baseUrl = "unset" THEN Throws("No URL provided")
              ELSE NewUrl(url, baseUrl)
         ELSE IF baseUrl # "unset" THEN Url(baseUrl, "/users", url.search)
              ELSE NewUrl(url, "unset")

\* private defaultResolveUrl(url, baseUrl)
defaultResolveUrl(url, baseUrl) ==
    IF url.kind = "object"
    THEN Url("https://absolute.example", "/path", url.search)
    ELSE IF url.kind = "empty"
         THEN IF baseUrl = "unset" THEN Throws("No URL provided")
              ELSE NewUrl(url, baseUrl)
         ELSE IF baseUrl # "unset" THEN NewUrl(url, baseUrl)
              ELSE NewUrl(url, "unset")

\* the resolvers a caller may supply: each sends every call to one origin
Resolvers == {"toMirror", "toProxy"}

\* this.defaults.resolveUrl(inputUrl, baseUrl)
ResolveUrlWith(resolver, url, baseUrl) ==
    CASE resolver = "toMirror" -> Url("https://mirror.example", "/", <<>>)
      [] resolver = "toProxy" -> Url("https://proxy.example", "/", <<>>)
      [] OTHER -> defaultResolveUrl(url, baseUrl)

\* ------------------------------------------------------------ setDefaults
\* private defaults = { searchParams: [], headers: {}, retry: false, timeout,
\* isResponseError: this.defaultIsResponseError }: the field before the
\* constructor's setDefaults.  A snapshot is an object (id, frozen) holding
\* the headers object (obj, frozen, its entries), the searchParams array
\* (frozen, its entries, each an array that may be frozen), the scalar options
\* and the three strategies
FieldDefaults ==
    [id |-> 0, frozen |-> FALSE,
     baseUrl |-> "unset", isResponseError |-> "builtin",
     headers |-> [obj |-> 0, frozen |-> FALSE, entries |-> <<>>],
     searchParams |-> [frozen |-> FALSE, entries |-> <<>>],
     mergeHeaders |-> "unset", mergeSearchParams |-> "unset",
     resolveUrl |-> "unset"]

\* defaults.searchParams as a URLSearchParamsInit: its [key, value] pairs
ParamsOf(d) ==
    [i \in 1..Len(d.searchParams.entries) |->
        <<d.searchParams.entries[i].key, d.searchParams.entries[i].value>>]

\* an update without any field: setDefaults({})
NoFields ==
    [fn |-> "literal", baseUrl |-> "unset", isResponseError |-> "unset",
     headers |-> Undefined, searchParams |-> Undefined,
     mergeHeaders |-> "unset", mergeSearchParams |-> "unset",
     resolveUrl |-> "unset"]

\* typeof defaults === 'function' ? defaults(this.defaults) : defaults, for a
\* literal and for the functions d => d ("identity") and
\* d => ({ ...d, ...fields }) ("spread")
Resolved(update, d) ==
    IF update.fn = "literal" THEN update
    ELSE [fn |-> update.fn,
          baseUrl |-> IF update.baseUrl # "unset" THEN update.baseUrl
                      ELSE d.baseUrl,
          isResponseError |-> IF update.isResponseError # "unset"
                              THEN update.isResponseError
                              ELSE d.isResponseError,
          headers |-> IF update.headers # Undefined THEN update.headers
                      ELSE d.headers.entries,
          searchParams |-> IF update.searchParams # Undefined
                           THEN update.searchParams ELSE ParamsOf(d),
          mergeHeaders |-> IF update.mergeHeaders # "unset"
                           THEN update.mergeHeaders ELSE d.mergeHeaders,
          mergeSearchParams |-> IF update.mergeSearchParams # "unset"
                                THEN update.mergeSearchParams
                                ELSE d.mergeSearchParams,
          resolveUrl |-> IF update.resolveUrl # "unset"
                         THEN update.resolveUrl ELSE d.resolveUrl]

\* variant: the identity of the resolved object is not looked at
IsSame_Never(update) == FALSE

\* Object.is(resolvedDefaults, this.defaults)
IsSame(update) == update.fn = "identity"

\* variant: null is stored as no strategy at all
ResolveStrategy_NullClears(current, supplied) ==
    IF supplied = "null" THEN "unset"
    ELSE IF supplied # "unset" THEN supplied
    ELSE IF current = "unset" THEN "builtin" ELSE current

\* variant: null leaves the current strategy in place
ResolveStrategy_NullKeeps(current, supplied) ==
    IF supplied \notin {"unset", "null"} THEN supplied
    ELSE IF current = "unset" THEN "builtin" ELSE current

\* let merge = this.defaults.merge ?? this.defaultMerge;
\* if (resolved.merge === null) merge = this.defaultMerge;
\* else if (resolved.merge !== undefined) merge = resolved.merge
ResolveStrategy(current, supplied) ==
    IF supplied = "null" THEN "builtin"
    ELSE IF supplied # "unset" THEN supplied
    ELSE IF current = "unset" THEN "builtin" ELSE current

\* variant: the entries of searchParams are left unfrozen
Freeze_NotTheEntries(snapshot) ==
    [snapshot EXCEPT !.frozen = TRUE, !.headers.frozen = TRUE,
                     !.searchParams.frozen = TRUE]

\* Object.freeze of headers, of each entry, of searchParams, of the snapshot
Freeze(snapshot) ==
    [snapshot EXCEPT
        !.frozen = TRUE,
        !.headers.frozen = TRUE,
        !.searchParams.frozen = TRUE,
        !.searchParams.entries =
            [i \in DOMAIN @ |-> [@[i] EXCEPT !.frozen = TRUE]]]

\* variant: a field the update does not hold is reset
Overlay_Resets(current, incoming) == incoming

\* { ...this.defaults, ...resolvedDefaults }, for one field: the update's
\* value when the update holds the field, else the current one
Overlay(current, incoming) ==
    IF incoming # "unset" THEN incoming ELSE current

\* one call of a listener with the snapshot: whether it threw, and whether
\* the exception was caught and logged with console.error
Notified(listener, snapshot, threw, logged) ==
    [listener |-> listener, snapshot |-> snapshot.id,
     threw |-> threw, logged |-> logged]

\* variant: the loop ends after the first listener
dispatchEvent_OnlyFirst(ls, snapshot, throwers) ==
    [i \in 1..(IF ls = <<>> THEN 0 ELSE 1) |->
        Notified(ls[i], snapshot, ls[i] \in throwers, ls[i] \in throwers)]

\* variant: no try / catch around the listener call, the first exception
\* ends the loop and leaves dispatchEvent
dispatchEvent_Uncaught(ls, snapshot, throwers) ==
    LET stop == IF \E i \in DOMAIN ls : ls[i] \in throwers
                THEN CHOOSE i \in DOMAIN ls :
                        /\ ls[i] \in throwers
                        /\ \A j \in 1..(i - 1) : ls[j] \notin throwers
                ELSE Len(ls)
    IN  [i \in 1..stop |-> Notified(ls[i], snapshot, ls[i] \in throwers, FALSE)]

\* dispatchEvent('onDefaultsChanged', this.defaults): every listener of a copy
\* of the set is called with the snapshot inside try / catch; the calls made,
\* in order.  throwers are the listeners that throw when called
dispatchEvent(ls, snapshot, throwers) ==
    [i \in 1..Len(ls) |->
        Notified(ls[i], snapshot, ls[i] \in throwers, ls[i] \in throwers)]

\* what a setDefaults call did: the update, the strategies it ran, the
\* listener calls it made, and whether it returned (no exception left it)
Did(update, merges, notified) ==
    [update |-> update, merges |-> merges, notified |-> notified,
     thrown |-> "none",
     returned |-> \A i \in DOMAIN notified :
                     notified[i].threw => notified[i].logged]

\* where a setDefaults call is left by an exception of the caller's code: in
\* the update function ("throws" is a function that throws), in the header
\* merge or in the query merge the update supplies (a strategy that throws),
\* or nowhere
Thrown(update, d) ==
    IF update.fn = "throws" THEN "update"
    ELSE IF Resolved(update, d).mergeHeaders = "throws" THEN "mergeHeaders"
    ELSE IF Resolved(update, d).mergeSearchParams = "throws"
         THEN "mergeSearchParams"
    ELSE "none"

\* variant: this.defaults is assigned before the merges are made
Committed_BeforeMerges(point, d, snapshot) ==
    IF point = "update" THEN d ELSE snapshot

\* this.defaults = { ... } is the one assignment of setDefaults and comes
\* after the update function and both merges: a call left before it has
\* stored nothing
Committed(point, d, snapshot) ==
    IF point = "none" THEN snapshot ELSE d

\* public setDefaults(defaults): from the current snapshot d, the listeners ls
\* (of which throwers throw) and the history h to the stored snapshot and the
\* history
setDefaults(d, ls, h, update, throwers) ==
    IF update.fn # "throws" /\ IsSame(update)
    THEN [defaults |-> d,
          history |-> [h EXCEPT !.updates = @ + 1,
                                !.last = Did(update, <<>>, <<>>)]]
    ELSE LET resolvedDefaults == Resolved(update, d)
             mergeHeaders ==
                ResolveStrategy(d.mergeHeaders, resolvedDefaults.mergeHeaders)
             mergedHeaders ==
                MergeHeadersWith(mergeHeaders, d.headers.entries,
                                 resolvedDefaults.headers)
             mergeSearchParams ==
                ResolveStrategy(d.mergeSearchParams,
                                resolvedDefaults.mergeSearchParams)
             mergedSearchParams ==
                MergeSearchParamsWith(mergeSearchParams, ParamsOf(d),
                                      resolvedDefaults.searchParams)
             resolveUrl ==
                ResolveStrategy(d.resolveUrl, resolvedDefaults.resolveUrl)
             snapshot == Freeze(
                [id |-> h.nextObj, frozen |-> FALSE,
                 baseUrl |-> Overlay(d.baseUrl, resolvedDefaults.baseUrl),
                 isResponseError |->
                    Overlay(d.isResponseError, resolvedDefaults.isResponseError),
                 headers |-> [obj |-> h.nextObj + 1, frozen |-> FALSE,
                              entries |-> HeadersEntries(mergedHeaders)],
                 searchParams |->
                    [frozen |-> FALSE,
                     entries |-> [i \in 1..Len(mergedSearchParams) |->
                                    [key |-> mergedSearchParams[i][1],
                                     value |-> mergedSearchParams[i][2],
                                     frozen |-> FALSE]]],
                 mergeHeaders |-> mergeHeaders,
                 mergeSearchParams |-> mergeSearchParams,
                 resolveUrl |-> resolveUrl])
         IN  IF Thrown(update, d) # "none"
             THEN [defaults |-> Committed(Thrown(update, d), d, snapshot),
                   history |->
                     [h EXCEPT !.updates = @ + 1,
                               !.last =
                                  [Did(update,
                                       IF Thrown(update, d) = "mergeSearchParams"
                                       THEN <<[merge |-> "headers",
                                               strategy |-> mergeHeaders]>>
                                       ELSE <<>>, <<>>)
                                   EXCEPT !.thrown = Thrown(update, d),
                                          !.returned = FALSE]]]
             ELSE
             [defaults |-> snapshot,
              history |->
                [h EXCEPT !.updates = @ + 1,
                          !.nextObj = @ + 2,
                          !.ids = @ \cup {d.id},
                          !.last = Did(update,
                                       <<[merge |-> "headers",
                                          strategy |-> mergeHeaders],
                                         [merge |-> "searchParams",
                                          strategy |-> mergeSearchParams]>>,
                                       dispatchEvent(ls, snapshot, throwers))]]

\* the history of a client not yet constructed
NoHistory ==
    [updates |-> 0, nextObj |-> 1, ids |-> {},
     last |-> Did(NoFields, <<>>, <<>>),
     passed |-> [obj |-> 0, entries |-> Undefined]]

\* constructor(defaults = {}) { super(); this.setDefaults(defaults) }
Constructed(init) == setDefaults(FieldDefaults, <<>>, NoHistory, init, {})

\* ------------------------------------------------------- the call's steps
\* variant: the call rejects with an error that wraps the one thrown
Reject_Wraps(c, error) ==
    [c EXCEPT !.pc = "rejected", !.error = Err("WrappedError", error.at, 0)]

\* throw error: the async function's promise rejects with that value
Reject(c, error) ==
    [c EXCEPT !.pc = "rejected", !.error = error]

\* decorateResponse + return: Object.defineProperty(response, 'request', ...)
decorateResponse(c) ==
    [c EXCEPT !.pc = "resolved",
              !.result = c.response.id,
              !.decorated = @ \cup {[response |-> c.response.id,
                                      value |-> c.request,
                                      writable |-> FALSE,
                                      configurable |-> FALSE,
                                      enumerable |-> TRUE]},
              !.defineCalls = @ + 1]

\* variant: a timeout of 0 is taken for a disabled timeout
fetchWithTimeout_ZeroIsOff(c) ==
    IF config.timeout = TimeoutOff \/ config.timeout = 0
    THEN [c EXCEPT !.pc = "inflight", !.calls = @ + 1,
                   !.sent = c.request, !.sentFrom = c.request,
                   !.sentUrl = c.url]
    ELSE [c EXCEPT !.pc = "inflight", !.calls = @ + 1,
                   !.sent = c.nextObj, !.sentFrom = c.request,
                   !.sentUrl = c.url,
                   !.nextObj = @ + 1,
                   !.timerArmed = TRUE,
                   !.anySignal = IF signal \in AbortReasons THEN signal
                                 ELSE "armed"]

\* one transport invocation: fetchFn(urlToSend, request), or fetchWithTimeout
\* up to its await (fresh controller and timer, the options copied with
\* signal: anySignal)
fetchWithTimeout(c) ==
    IF config.timeout = TimeoutOff
    THEN [c EXCEPT !.pc = "inflight", !.calls = @ + 1,
                   !.sent = c.request, !.sentFrom = c.request,
                   !.sentUrl = c.url]
    ELSE [c EXCEPT !.pc = "inflight", !.calls = @ + 1,
                   !.sent = c.nextObj, !.sentFrom = c.request,
                   !.sentUrl = c.url,
                   !.nextObj = @ + 1,
                   !.timerArmed = TRUE,
                   !.anySignal = IF signal \in AbortReasons THEN signal
                                 ELSE "armed"]

\* variant: the final throw left out, the function returns undefined
RetryLoop_NoFinalThrow(c) ==
    IF c.attempt <= maxAttempts
    THEN fetchWithTimeout(c)
    ELSE [c EXCEPT !.pc = "resolved"]

\* for (let attempt = ...; attempt <= maxAttempts; ...) and the fall-through
\* throw lastError ?? new Error('Unknown fetch error')
RetryLoop(c) ==
    IF c.attempt <= maxAttempts
    THEN fetchWithTimeout(c)
    ELSE Reject(c, IF c.lastError = NoError
                   THEN Err("UnknownFetchError", 0, 0) ELSE c.lastError)

\* variant: a fixed delay is not waited for
handleRetryDelay_NoWait(c, error) ==
    IF ~config.retry.active \/ config.retry.delay # "function"
    THEN RetryLoop([c EXCEPT !.attempt = @ + 1])
    ELSE [c EXCEPT !.pc = "delay",
                   !.delayLog = Append(@, <<c.attempt, error>>)]

\* await this.handleRetryDelay(retryOptions, attempt, error); continue
handleRetryDelay(c, error) ==
    IF ~config.retry.active \/ config.retry.delay = "unset"
    THEN RetryLoop([c EXCEPT !.attempt = @ + 1])
    ELSE [c EXCEPT !.pc = "delay",
                   !.delayLog = IF config.retry.delay = "function"
                                THEN Append(@, <<c.attempt, error>>) ELSE @]

\* variant: the last permitted retry is not made
shouldRetry_OneEarly(c, v) ==
    /\ c.attempt + 1 < maxAttempts
    /\ config.retry.active
    /\ (config.retry.retryOn = "unset" \/ v)

\* variant: the predicate's answer is not used
shouldRetry_IgnoresPredicate(c, v) ==
    /\ c.attempt < maxAttempts
    /\ config.retry.active

\* attempt < maxAttempts && retryOptions &&
\*   (!retryOptions.retryOn || retryOptions.retryOn(attempt, error))
\* v is what retryOn answers for (attempt, error) should it be asked
shouldRetry(c, v) ==
    /\ c.attempt < maxAttempts
    /\ config.retry.active
    /\ (config.retry.retryOn = "unset" \/ v)

\* the same expression's trace: it has been evaluated for (attempt, error),
\* and retryOn has been called if && reached it
retryOnCalled(c, error, v) ==
    LET e == [c EXCEPT !.evals = Append(@, <<c.attempt, error>>)]
    IN  IF c.attempt < maxAttempts /\ config.retry.active
           /\ config.retry.retryOn # "unset"
        THEN [e EXCEPT !.retryOnLog = Append(@, <<c.attempt, error, v>>)]
        ELSE e

\* variant: an AbortError goes on to retry evaluation
CatchHandler_NoAbortCheck(c0, error, v, lk) ==
    LET c == [c0 EXCEPT !.lastError = error]
    IN  IF isBodyUnusable(lk) THEN Reject(c, error)
        ELSE IF shouldRetry(c, v)
             THEN handleRetryDelay(retryOnCalled(c, error, v), error)
             ELSE Reject(retryOnCalled(c, error, v), error)

\* variant: a timeout error is rethrown like a caller abort
CatchHandler_TimeoutIsAbort(c0, error, v, lk) ==
    LET c == [c0 EXCEPT !.lastError = error]
        isAbortError == error.name \in {"AbortError", "FetchClientTimeoutError"}
    IN  IF isAbortError THEN Reject(c, error)
        ELSE IF isBodyUnusable(lk) THEN Reject(c, error)
        ELSE IF shouldRetry(c, v)
             THEN handleRetryDelay(retryOnCalled(c, error, v), error)
             ELSE Reject(retryOnCalled(c, error, v), error)

\* catch (error) { ... }: lastError, the abort check, the locked-stream check,
\* retry evaluation
CatchHandler(c0, error, v, lk) ==
    LET c == [c0 EXCEPT !.lastError = error]
        isAbortError == error.name = "AbortError"
        isInstanceofTimeoutError == error.name = "FetchClientTimeoutError"
    IN  IF isAbortError /\ ~isInstanceofTimeoutError THEN Reject(c, error)
        ELSE IF isBodyUnusable(lk) THEN Reject(c, error)
        ELSE IF shouldRetry(c, v)
             THEN handleRetryDelay(retryOnCalled(c, error, v), error)
             ELSE Reject(retryOnCalled(c, error, v), error)

\* variant: the response is decorated before it is classified
Classify_DecoratesFirst(c, v, lk) ==
    LET d == [c EXCEPT !.decorated = @ \cup {[response |-> c.response.id,
                                               value |-> c.request,
                                               writable |-> FALSE,
                                               configurable |-> FALSE,
                                               enumerable |-> TRUE]},
                       !.defineCalls = @ + 1]
    IN  IF isResponseError(c, c.response)
        THEN LET error == FetchClientError(c.calls, c.request, c.response)
             IN  IF shouldRetry(c, v)
                 THEN handleRetryDelay(retryOnCalled(d, error, v), error)
                 ELSE CatchHandler(retryOnCalled(d, error, v), error, v, lk)
        ELSE [d EXCEPT !.pc = "resolved", !.result = c.response.id]

\* after the post-receive hooks: classification, retry evaluation for an
\* error-classified response (its throw lands in the catch handler of the
\* same try), or decoration and return
Classify(c, v, lk) ==
    IF isResponseError(c, c.response)
    THEN LET error == FetchClientError(c.calls, c.request, c.response)
         IN  IF shouldRetry(c, v)
             THEN handleRetryDelay(retryOnCalled(c, error, v), error)
             ELSE CatchHandler(retryOnCalled(c, error, v), error, v, lk)
    ELSE decorateResponse(c)

\* for (const afterResponse of afterResponseHooks): the iterator was made
\* once, before the retry loop, and is advanced across attempts
AfterResponseLoop(c, v, lk) ==
    IF c.afterIter < Len(hooks.afterResponse)
    THEN [c EXCEPT !.pc = "afterResponse", !.afterIter = @ + 1,
                   !.afterLog = Append(@, <<c.attempt, hooks.afterResponse[c.afterIter + 1]>>)]
    ELSE Classify(c, v, lk)

\* for (const beforeRequest of beforeRequestHooks), then the retry loop
BeforeRequestLoop(c) ==
    IF c.beforeIter < Len(hooks.beforeRequest)
    THEN [c EXCEPT !.pc = "beforeRequest", !.beforeIter = @ + 1,
                   !.beforeLog = Append(@, [hook |-> hooks.beforeRequest[c.beforeIter + 1],
                                            request |-> c.request])]
    ELSE RetryLoop([c EXCEPT !.attempt = 0])

\* variant: what the hook returned is not adopted
Adopt_Ignores(c, result) ==
    IF result = "replace"
    THEN [c EXCEPT !.nextObj = @ + 1,
                   !.beforeReturned = Append(@, c.nextObj)]
    ELSE [c EXCEPT !.beforeReturned = Append(@, 0)]

\* const result = await beforeRequest(request); if (result) request = result:
\* a hook that returns a descriptor returns a new object here, either one
\* that holds the fields of the descriptor it was given ("replace") or one of
\* its own that holds the URL and no isResponseError ("own"), and 0 stands
\* for a hook that returns nothing
Adopt(c, result) ==
    IF result = "replace"
    THEN [c EXCEPT !.request = c.nextObj, !.nextObj = @ + 1,
                   !.beforeReturned = Append(@, c.nextObj)]
    ELSE IF result = "own"
    THEN [c EXCEPT !.request = c.nextObj, !.nextObj = @ + 1,
                   !.beforeReturned = Append(@, c.nextObj),
                   !.isResponseError = "unset"]
    ELSE [c EXCEPT !.beforeReturned = Append(@, 0)]

\* variant: the call's query parameters are merged in before the URL's
FinalSearchParams_UrlLast(resolvedUrl) ==
    MergeSearchParamsWith(defaults.mergeSearchParams,
        MergeSearchParamsWith(defaults.mergeSearchParams,
                              NewURLSearchParams(ParamsOf(defaults)),
                              NewURLSearchParams(input.searchParams)),
        resolvedUrl.search)

\* this.defaults.mergeSearchParams(
\*   this.defaults.mergeSearchParams(defaultSearchParams, urlSearchParams),
\*   configSearchParams)
FinalSearchParams(resolvedUrl) ==
    MergeSearchParamsWith(defaults.mergeSearchParams,
        MergeSearchParamsWith(defaults.mergeSearchParams,
                              NewURLSearchParams(ParamsOf(defaults)),
                              resolvedUrl.search),
        NewURLSearchParams(input.searchParams))

\* const baseUrl = config.baseUrl ?? this.defaults.baseUrl
BaseUrlOf(d) ==
    IF input.baseUrl # "unset" THEN input.baseUrl ELSE d.baseUrl

\* resolvedUrl.search = finalSearchParams.toString(), seen from the caller's
\* inputUrl: the built-in resolver returns a URL object it is given as it is
\* (if (url instanceof URL) return url), so the assignment writes to the
\* caller's object; a string, and a URL made by a supplied resolver, are not
\* the caller's
Assigned(url, resolver, search) ==
    IF url.kind = "object" /\ resolver = "builtin"
    THEN [url EXCEPT !.search = search]
    ELSE url

\* fetch up to the hooks: the URL resolved, the query merged and set on the
\* URL, the request descriptor { ...this.defaults, ...config, url, ... } built;
\* an exception here rejects the call
BuildRequest(c) ==
    IF defaults.resolveUrl = "unset"
    THEN Reject(c, Err("No URL resolver defined in defaults.", 0, 0))
    ELSE LET resolvedUrl ==
                ResolveUrlWith(defaults.resolveUrl, input.url, BaseUrlOf(defaults))
         IN  IF resolvedUrl.error # "none"
             THEN Reject(c, Err(resolvedUrl.error, 0, 0))
             ELSE IF defaults.mergeSearchParams = "unset"
             THEN Reject(c, Err("No searchParams merger defined in defaults.", 0, 0))
             ELSE IF defaults.mergeHeaders = "unset"
             THEN Reject(c, Err("No headers merger defined in defaults.", 0, 0))
             ELSE BeforeRequestLoop(
                    [c EXCEPT !.request = c.nextObj,
                              !.nextObj = @ + 1,
                              !.url = [resolvedUrl EXCEPT
                                          !.search = FinalSearchParams(resolvedUrl)],
                              !.inputUrl =
                                  Assigned(input.url, defaults.resolveUrl,
                                           FinalSearchParams(resolvedUrl)),
                              !.isResponseError =
                                  IF input.isResponseError # "unset"
                                  THEN input.isResponseError
                                  ELSE defaults.isResponseError])

\* what a transport invocation did: returned a response ("ok" / "notok"),
\* threw of its own ("threw"), or rejected with its signal's reason ("aborted")
Outcome(kind, error) == [outcome |-> kind, error |-> error]

\* variant: the timer is left running when the invocation settles
Settled_KeepsTimer(c, outcome) ==
    [c EXCEPT !.anySignal = "none",
              !.transportLog = Append(@, outcome)]

\* finally { clearTimeout(timeoutId) } and the record of what the transport did
Settled(c, outcome) ==
    [c EXCEPT !.timerArmed = FALSE, !.anySignal = "none",
              !.transportLog = Append(@, outcome)]

\* -------------------------------------------------------------------- Init
\* the locals of a call not yet made
IdleCall ==
    [pc |-> "idle", request |-> 0, attempt |-> 0, calls |-> 0,
     sent |-> 0, sentFrom |-> 0, sentUrl |-> NoUrl, anySignal |-> "none",
     timerArmed |-> FALSE, response |-> NoResponse,
     lastError |-> NoError, error |-> NoError, result |-> 0,
     url |-> NoUrl, inputUrl |-> [kind |-> "empty", search |-> <<>>],
     isResponseError |-> "unset",
     beforeIter |-> 0, afterIter |-> 0,
     retryOnLog |-> <<>>, delayLog |-> <<>>, transportLog |-> <<>>,
     evals |-> <<>>,
     beforeLog |-> <<>>, beforeReturned |-> <<>>, afterLog |-> <<>>,
     decorated |-> {}, defineCalls |-> 0, nextObj |-> 1]

\* fetch('https://absolute.example/path') without options
PlainInput ==
    [url |-> [kind |-> "absolute", search |-> <<>>], baseUrl |-> "unset",
     searchParams |-> Undefined, isResponseError |-> "unset"]

\* no merge under study
NoMerge == [fn |-> "none", a |-> <<>>, b |-> <<>>, out |-> <<>>, done |-> FALSE]

\* the retry, timeout and body of a call where these are not under study
PlainConfig == [retry |-> NoRetry, timeout |-> TimeoutOff, body |-> "none"]

\* no hook registry operation made yet
NoOps == [count |-> 0, last |-> [op |-> "none", kind |-> "none", cb |-> 0],
          added |-> {}]

\* no second call
NoPeer == [call |-> IdleCall, config |-> PlainConfig, signal |-> "absent",
           locked |-> FALSE]

\* new FetchClient(init): the snapshot the constructor stores; no listener,
\* no hook operation and no second call yet
NewClient(init) ==
    /\ defaults = Constructed(init).defaults
    /\ history = [Constructed(init).history EXCEPT !.updates = 0]
    /\ listeners = <<>>
    /\ ops = NoOps
    /\ peer = NoPeer

\* a call without hooks, timeout, signal or body
PlainCall ==
    /\ hooks = [beforeRequest |-> <<>>, afterResponse |-> <<>>]
    /\ signal = "absent"
    /\ locked = FALSE
    /\ call = IdleCall

\* retry policies without a delay
Undelayed == {NoRetry} \cup {r \in RetryOptions : r.delay = "unset"}

\* A call about to be made.  Four families of calls are tried: calls that
\* vary the hooks, the retry policy, the timeout, the signal and the body (a
\* stream body without hooks, which never see the body's lock);
\* calls that vary the error predicate of the defaults and of the call; calls
\* that vary the number of pre-send hooks; calls with a timeout of 0
Init ==
    /\ locked = FALSE
    /\ call = IdleCall
    /\ merge = NoMerge
    /\ \/ /\ NewClient(NoFields)
          /\ input = PlainInput
          /\ hooks \in {h \in [beforeRequest : {[i \in 1..n |-> i] : n \in 0..MaxHooks},
                                 afterResponse : {[i \in 1..n |-> i] : n \in 0..MaxHooks}] :
                           Len(h.beforeRequest) + Len(h.afterResponse) <= MaxHooks}
          /\ config \in [retry : {NoRetry} \cup RetryOptions,
                         timeout : Timeouts,
                         body : {"none", "stream"}]
          /\ config.body = "stream" =>
                Len(hooks.beforeRequest) + Len(hooks.afterResponse) = 0
          /\ signal \in {"absent", "armed"}
       \/ /\ \E p \in {"unset"} \cup Predicates :
                NewClient([NoFields EXCEPT !.isResponseError = p])
          /\ input \in {[PlainInput EXCEPT !.isResponseError = p] :
                            p \in {"unset"} \cup Predicates}
          /\ hooks = [beforeRequest |-> <<>>, afterResponse |-> <<>>]
          /\ config \in [retry : Undelayed, timeout : {TimeoutOff}, body : {"none"}]
          /\ signal = "absent"
       \/ /\ NewClient(NoFields)
          /\ input = PlainInput
          /\ hooks \in [beforeRequest : {[i \in 1..n |-> i] : n \in 1..MaxBefore},
                        afterResponse : {<<>>}]
          /\ config \in [retry : {r \in Undelayed : r.limit \in 0..1
                                                    /\ r.retryOn = "unset"},
                         timeout : Timeouts, body : {"none"}]
          /\ signal = "absent"
       \/ /\ NewClient(NoFields)
          /\ input = PlainInput
          /\ hooks = [beforeRequest |-> <<>>, afterResponse |-> <<>>]
          /\ config \in [retry : {r \in Undelayed : r.limit \in 0..1
                                                    /\ r.retryOn = "unset"},
                         timeout : {0}, body : {"none"}]
          /\ signal \in {"absent", "armed"}

\* ----------------------------------------------------------------- actions
\* client.fetch(input.url, input): builds the request descriptor and runs to
\* the first await
Fetch ==
    /\ call.pc = "idle"
    /\ call' = BuildRequest(call)
    /\ UNCHANGED <<store, hooks, config, signal, locked>>

\* the awaited pre-send hook settles: nothing returned, a replacement
\* descriptor returned, or an exception (outside the try: the call rejects)
BeforeRequestSettles ==
    /\ call.pc = "beforeRequest"
    /\ \E result \in {"void", "replace", "throw"} :
         call' = IF result = "throw"
                 THEN Reject(call, Err("BeforeRequestHookError", 0, 0))
                 ELSE BeforeRequestLoop(Adopt(call, result))
    /\ UNCHANGED <<store, hooks, config, signal, locked>>

\* what an invocation may do to a ReadableStream body: read (lock) it or not
LockChoices == IF config.body = "stream" THEN {locked, TRUE} ELSE {locked}

\* the transport returns a response
TransportResolves ==
    /\ call.pc = "inflight"
    /\ TransportSignal(call) \notin Aborted
    /\ \E status \in Statuses, v \in BOOLEAN, lk \in LockChoices :
         /\ locked' = lk
         /\ call' = AfterResponseLoop(
                [Settled(call, IF status \in 200..299 THEN Outcome("ok", "none")
                                                      ELSE Outcome("notok", "none"))
                   EXCEPT !.response = Response(call.nextObj, status),
                          !.nextObj = @ + 1], v, lk)
    /\ UNCHANGED <<store, hooks, config, signal>>

\* the transport throws of its own: a network error, or an AbortError
TransportRejects ==
    /\ call.pc = "inflight"
    /\ TransportSignal(call) \notin Aborted
    /\ \E name \in {"NetworkError", "AbortError"}, v \in BOOLEAN,
          lk \in LockChoices :
         /\ locked' = lk
         /\ call' = CatchHandler(Settled(call, Outcome("threw", name)),
                                 Err(name, call.calls, 0), v, lk)
    /\ UNCHANGED <<store, hooks, config, signal>>

\* the transport honours its signal, as the platform's fetch does: once the
\* signal is aborted the pending invocation rejects with signal.reason (and an
\* invocation started with an aborted signal rejects at once)
TransportAborted ==
    /\ call.pc = "inflight"
    /\ TransportSignal(call) \in Aborted
    /\ \E v \in BOOLEAN, lk \in LockChoices :
         /\ locked' = lk
         /\ call' = CatchHandler(
                Settled(call, Outcome("aborted", TransportSignal(call))),
                ReasonError(TransportSignal(call), call.calls), v, lk)
    /\ UNCHANGED <<store, hooks, config, signal>>

\* variant: one controller for the whole client, so that the timer of one call
\* aborts the pending invocation of the other call too
Bystander_SharedController(p) ==
    [p EXCEPT !.call.anySignal = IF @ = "armed" THEN "FetchClientTimeoutError"
                                 ELSE @]

\* what the timer of one invocation does to the other call: nothing, for
\* const controller = new AbortController() and the timer are locals of one
\* invocation of fetchWithTimeout
Bystander(p) == p

\* variant: the timer aborts without the timeout error as reason
TimeoutFires_PlainAbort ==
    /\ call.pc = "inflight"
    /\ call.timerArmed
    /\ call' = [call EXCEPT !.timerArmed = FALSE,
                            !.anySignal = IF @ = "armed" THEN "AbortError" ELSE @]
    /\ UNCHANGED <<store, hooks, config, signal, locked>>

\* setTimeout(() => controller.abort(new FetchClientTimeoutError(input)), timeout)
TimeoutFires ==
    /\ call.pc = "inflight"
    /\ call.timerArmed
    /\ call' = [call EXCEPT !.timerArmed = FALSE,
                            !.anySignal = IF @ = "armed"
                                          THEN "FetchClientTimeoutError" ELSE @]
    /\ peer' = Bystander(peer)
    /\ UNCHANGED <<defaults, listeners, history, merge, input, ops>>
    /\ UNCHANGED <<hooks, config, signal, locked>>

\* the caller calls controller.abort(reason?) on the signal it passed
CallerAborts ==
    /\ signal = "armed"
    /\ call.pc \notin Terminal
    /\ \E reason \in AbortReasons :
         /\ signal' = reason
         /\ call' = [call EXCEPT !.anySignal = IF @ = "armed" THEN reason ELSE @]
    /\ UNCHANGED <<store, hooks, config, locked>>

\* the awaited post-receive hook settles: nothing returned, a replacement
\* response returned, or an exception (inside the try)
AfterResponseSettles ==
    /\ call.pc = "afterResponse"
    /\ \E result \in {"void", "ok", "notok", "throw"}, v \in BOOLEAN :
         call' = CASE result = "void" -> AfterResponseLoop(call, v, locked)
                   [] result \in {"ok", "notok"} ->
                        AfterResponseLoop(
                            [call EXCEPT !.response =
                                             Response(call.nextObj,
                                                      IF result = "ok" THEN 200
                                                                       ELSE 404),
                                         !.nextObj = @ + 1], v, locked)
                   [] result = "throw" ->
                        CatchHandler(call,
                                     Err("AfterResponseHookError", call.calls, 0),
                                     v, locked)
    /\ UNCHANGED <<store, hooks, config, signal, locked>>

\* the setTimeout of handleRetryDelay fires: continue, attempt++
RetryDelayElapses ==
    /\ call.pc = "delay"
    /\ call' = RetryLoop([call EXCEPT !.attempt = @ + 1])
    /\ UNCHANGED <<store, hooks, config, signal, locked>>

Next ==
    \/ Fetch
    \/ BeforeRequestSettles
    \/ TransportResolves
    \/ TransportRejects
    \/ TransportAborted
    \/ TimeoutFires
    \/ CallerAborts
    \/ AfterResponseSettles
    \/ RetryDelayElapses

Spec == Init /\ [][Next]_vars

\* what the call awaits: a hook, the transport, the delay timer
Settles ==
    \/ BeforeRequestSettles
    \/ TransportResolves \/ TransportRejects \/ TransportAborted
    \/ AfterResponseSettles
    \/ RetryDelayElapses

\* Every awaited promise settles.
LiveSpec ==
    /\ Init /\ [][Next]_vars
    /\ WF_vars(Settles)

\* ------------------------------------------- the defaults and their updates
\* the headers and query parameters tried in updates
HeaderSamples ==
    {<<<<"X-A", <<1>>>>>>, <<<<"x-a", <<2>>>>>>, <<<<"x-b", <<1>>>>>>,
     <<<<"X-A", <<1>>>>, <<"x-a", <<2>>>>>>}

ParamSamples ==
    {<<<<"a", <<1>>>>>>, <<<<"A", <<1>>>>>>, <<<<"a", <<2>>>>, <<"a", <<1>>>>>>}

\* what an update may hold for a strategy: nothing, null, a function
Supplied == {"unset", "null"} \cup Strategies

\* the arguments tried for setDefaults: literals holding headers or query
\* parameters with or without the strategy of that merge, literals holding one
\* option or the resolver, the empty literal, and update functions
Updates ==
    {[NoFields EXCEPT !.headers = h, !.mergeHeaders = st] :
        h \in HeaderSamples \cup {Undefined}, st \in Supplied}
    \cup {[NoFields EXCEPT !.searchParams = q, !.mergeSearchParams = st] :
        q \in ParamSamples \cup {Undefined}, st \in Supplied}
    \cup {[NoFields EXCEPT !.baseUrl = b] : b \in BaseUrls}
    \cup {[NoFields EXCEPT !.isResponseError = p] : p \in Predicates}
    \cup {[NoFields EXCEPT !.resolveUrl = r] : r \in {"null"} \cup Resolvers}
    \cup {[NoFields EXCEPT !.fn = f] : f \in {"identity", "spread"}}

\* client.setDefaults(update) with listeners that do not throw; the caller
\* keeps the headers object it passed
SetDefaults ==
    /\ history.updates < MaxUpdates
    /\ \E update \in Updates :
         LET after == setDefaults(defaults, listeners, history, update, {})
         IN  /\ defaults' = after.defaults
             /\ history' =
                   IF update.fn = "literal" /\ update.headers # Undefined
                   THEN [after.history EXCEPT
                            !.passed = [obj |-> after.history.nextObj,
                                        entries |-> update.headers],
                            !.nextObj = @ + 1]
                   ELSE after.history
    /\ UNCHANGED <<listeners, merge, input, hooks, config, signal, locked, call,
                   ops, peer>>

\* a function not yet in the set of listeners: the listeners are numbered,
\* and -k stands for the wrapper addOnceEventListener makes around k
NewListener(ls) ==
    CHOOSE k \in 1..(Len(ls) + 1) :
       /\ \A i \in DOMAIN ls : ls[i] # k /\ ls[i] # -k
       /\ \A j \in 1..(k - 1) : \E i \in DOMAIN ls : ls[i] = j \/ ls[i] = -j

\* client.addEventListener('onDefaultsChanged', listener), a new listener
AddEventListener ==
    /\ Len(listeners) < MaxListeners
    /\ listeners' = Append(listeners, NewListener(listeners))
    /\ UNCHANGED <<defaults, history, merge, input,
                   hooks, config, signal, locked, call, ops, peer>>

\* the caller writes to the headers object it passed to setDefaults; the write
\* shows in the snapshot only if the snapshot holds that very object, unfrozen
CallerMutatesPassed ==
    /\ history.passed.entries # Undefined
    /\ history.passed.entries[1][2] # <<0>>
    /\ history' = [history EXCEPT !.passed.entries[1][2] = <<0>>]
    /\ defaults' =
          IF defaults.headers.obj = history.passed.obj /\ ~defaults.headers.frozen
          THEN [defaults EXCEPT !.headers.entries = history'.passed.entries]
          ELSE defaults
    /\ UNCHANGED <<listeners, merge, input, hooks, config, signal, locked, call,
                   ops, peer>>

\* the caller writes to what getDefaults() returned: a field of the snapshot,
\* a header, a new query entry, the value of the first query entry; a write
\* to a frozen object changes nothing
CallerMutatesSnapshot ==
    /\ \E part \in {"snapshot", "headers", "searchParams", "entry"} :
         defaults' =
            CASE part = "snapshot" /\ ~defaults.frozen ->
                    [defaults EXCEPT !.baseUrl = "written"]
              [] part = "headers" /\ ~defaults.headers.frozen ->
                    [defaults EXCEPT !.headers.entries =
                                        Append(@, <<"written", <<0>>>>)]
              [] part = "searchParams" /\ ~defaults.searchParams.frozen ->
                    [defaults EXCEPT !.searchParams.entries =
                        Append(@, [key |-> "written", value |-> <<0>>,
                                   frozen |-> FALSE])]
              [] /\ part = "entry" /\ defaults.searchParams.entries # <<>>
                 /\ ~defaults.searchParams.entries[1].frozen ->
                    [defaults EXCEPT !.searchParams.entries[1].value = <<0>>]
              [] OTHER -> defaults
    /\ UNCHANGED <<listeners, history, merge, input,
                   hooks, config, signal, locked, call, ops, peer>>

\* a client just constructed, its defaults about to be updated
DefaultsInit ==
    /\ NewClient(NoFields)
    /\ merge = NoMerge
    /\ input = PlainInput
    /\ config = PlainConfig
    /\ PlainCall

DefaultsNext ==
    \/ SetDefaults
    \/ AddEventListener
    \/ CallerMutatesPassed
    \/ CallerMutatesSnapshot

DefaultsSpec == DefaultsInit /\ [][DefaultsNext]_vars

\* ---------------------------------------------------- the built-in merges
\* every list of at most n members of S
SeqsUpTo(S, n) == UNION {[1..k -> S] : k \in 0..n}

\* the arguments tried for the built-in merges: undefined and every list of
\* at most MaxLen pairs
HeaderInits == {Undefined} \cup SeqsUpTo(HeaderNames \X HeaderValues, MaxLen)
ParamInits == {Undefined} \cup SeqsUpTo(ParamKeys \X ParamValues, MaxLen)

\* a merge about to be applied to two arguments
Pending(fn, a, b) == [fn |-> fn, a |-> a, b |-> b, out |-> <<>>, done |-> FALSE]

\* defaultMergeHeaders(a, b) returns
MergeHeaders ==
    /\ merge.fn = "headers" /\ ~merge.done
    /\ merge' = [merge EXCEPT !.out = defaultMergeHeaders(merge.a, merge.b),
                              !.done = TRUE]
    /\ UNCHANGED <<defaults, listeners, history, input,
                   hooks, config, signal, locked, call, ops, peer>>

\* defaultMergeSearchParams(a, b) returns
MergeSearchParams ==
    /\ merge.fn = "searchParams" /\ ~merge.done
    /\ merge' = [merge EXCEPT !.out = defaultMergeSearchParams(merge.a, merge.b),
                              !.done = TRUE]
    /\ UNCHANGED <<defaults, listeners, history, input,
                   hooks, config, signal, locked, call, ops, peer>>

MergeInit ==
    /\ NewClient(NoFields)
    /\ input = PlainInput
    /\ config = PlainConfig
    /\ PlainCall
    /\ \/ \E a \in HeaderInits, b \in HeaderInits :
             merge = Pending("headers", a, b)
       \/ \E a \in ParamInits, b \in ParamInits :
             merge = Pending("searchParams", a, b)

MergeNext == MergeHeaders \/ MergeSearchParams

MergeSpec == MergeInit /\ [][MergeNext]_vars

\* ------------------------------------------------- building the request
\* the query parameters tried in each of the three layers: the value tells the
\* layer (1 the defaults, 2 the URL string, 3 the call)
DefaultLayer == {Undefined, <<<<"a", <<1>>>>>>, <<<<"a", <<1>>>>, <<"A", <<1>>>>>>}
UrlLayer == {<<>>, <<<<"a", <<2>>>>>>, <<<<"A", <<2>>>>>>}
CallLayer ==
    {Undefined, <<<<"a", <<3>>>>>>, <<<<"A", <<3>>>>>>,
     <<<<"a", <<3>>>>, <<"a", <<2>>>>>>}

\* the options tried for new FetchClient(init)
RequestInits ==
    {[NoFields EXCEPT !.baseUrl = b, !.searchParams = q,
                      !.mergeSearchParams = m, !.resolveUrl = r] :
        b \in {"unset"} \cup BaseUrls, q \in DefaultLayer,
        m \in {"unset"} \cup Strategies, r \in {"unset"} \cup Resolvers}

\* the arguments tried for fetch(url, { baseUrl, searchParams })
Inputs ==
    {[url |-> [kind |-> k, search |-> IF k = "empty" THEN <<>> ELSE q],
      baseUrl |-> b, searchParams |-> p, isResponseError |-> "unset"] :
        k \in UrlKinds, q \in UrlLayer,
        b \in {"unset"} \cup BaseUrls, p \in CallLayer}

RequestInit ==
    /\ \E init \in RequestInits : NewClient(init)
    /\ merge = NoMerge
    /\ input \in Inputs
    /\ hooks \in [beforeRequest : {<<>>, <<1>>}, afterResponse : {<<>>}]
    /\ config = PlainConfig
    /\ signal = "absent"
    /\ locked = FALSE
    /\ call = IdleCall

RequestNext ==
    Fetch \/ BeforeRequestSettles \/ TransportResolves \/ TransportRejects

RequestSpec == RequestInit /\ [][RequestNext]_vars

\* --------------------------------------------------- throwing listeners
\* the updates tried where the listeners are under study
FewUpdates ==
    {[NoFields EXCEPT !.baseUrl = b] : b \in BaseUrls}
    \cup {NoFields, [NoFields EXCEPT !.fn = "identity"]}

\* client.setDefaults(update) while some of the listeners throw when called
SetDefaultsNotifying ==
    /\ history.updates < MaxUpdates
    /\ \E update \in FewUpdates, throwers \in SUBSET Members(listeners) :
         LET after == setDefaults(defaults, listeners, history, update, throwers)
         IN  /\ defaults' = after.defaults
             /\ history' = after.history
    /\ UNCHANGED <<listeners, merge, input, hooks, config, signal, locked, call,
                   ops, peer>>

NotifyNext == SetDefaultsNotifying \/ AddEventListener

NotifySpec == DefaultsInit /\ [][NotifyNext]_vars

\* ------------------------------------------------- re-entrant listeners
\* const onceEventListener = (...args) => {
\*   this.removeEventListener(event, onceEventListener); listener(...args) }
IsOnce(listener) == listener < 0

\* the updates a listener makes from inside its notification
NestedUpdates == {[NoFields EXCEPT !.baseUrl = b] : b \in BaseUrls}

RECURSIVE Deliver(_, _, _, _, _, _)

\* a listener calls this.setDefaults(update) while it is being notified: the
\* new snapshot is stored and dispatched to a copy of the listeners
\* registered at that moment, before the listener returns
Reenter(st, update) ==
    LET after == setDefaults(st.defaults, <<>>, st.history, update, {})
    IN  Deliver(st.listeners, 1, after.defaults,
                [st EXCEPT !.defaults = after.defaults,
                           !.history = after.history],
                {}, update)

\* for (const listener of [...eventListeners]) listener(...args), from the
\* i-th listener of the copy on: a once wrapper removes itself from the set
\* and calls its listener; a listener of `reentrant` calls setDefaults(nested)
Deliver(copy, i, snapshot, st, reentrant, nested) ==
    IF i > Len(copy) THEN st
    ELSE LET listener == copy[i]
             removed ==
                IF IsOnce(listener)
                THEN [st EXCEPT !.listeners =
                                   SelectSeq(@, LAMBDA member : member # listener)]
                ELSE st
             called ==
                [removed EXCEPT !.log =
                                   Append(@, Notified(listener, snapshot, FALSE, FALSE))]
         IN  Deliver(copy, i + 1, snapshot,
                     IF listener \in reentrant THEN Reenter(called, nested)
                     ELSE called,
                     reentrant, nested)

\* client.addOnceEventListener('onDefaultsChanged', listener), a new listener
AddOnceEventListener ==
    /\ Len(listeners) < MaxListeners
    /\ listeners' = Append(listeners, -NewListener(listeners))
    /\ UNCHANGED <<defaults, history, merge, input,
                   hooks, config, signal, locked, call, ops, peer>>

\* client.setDefaults(update) while one of the listeners, or none, calls
\* setDefaults itself when it is notified of this update; history.last holds the
\* listener calls made until this outermost setDefaults returns
SetDefaultsReentrant ==
    /\ history.updates < MaxUpdates
    /\ \E update \in NestedUpdates, nested \in NestedUpdates,
          reentrant \in {{}} \cup {{l} : l \in Members(listeners)} :
         LET first == setDefaults(defaults, <<>>, history, update, {})
             final == Deliver(listeners, 1, first.defaults,
                              [listeners |-> listeners,
                               defaults |-> first.defaults,
                               history |-> first.history,
                               log |-> <<>>],
                              reentrant, nested)
         IN  /\ defaults' = final.defaults
             /\ listeners' = final.listeners
             /\ history' = [final.history EXCEPT
                               !.updates = history.updates + 1,
                               !.last = Did(update, first.history.last.merges,
                                            final.log)]
    /\ UNCHANGED <<merge, input, hooks, config, signal, locked, call, ops, peer>>

ReentrantNext ==
    SetDefaultsReentrant \/ AddEventListener \/ AddOnceEventListener

ReentrantSpec == DefaultsInit /\ [][ReentrantNext]_vars

\* ------------------------------------------------------ failing updates
\* the updates tried where exceptions are under study: an update function
\* that throws, updates that supply a merge that throws, updates that go
\* through
FailingUpdates ==
    {[NoFields EXCEPT !.fn = "throws"]}
    \cup {[NoFields EXCEPT !.headers = h, !.mergeHeaders = "throws"] :
             h \in HeaderSamples}
    \cup {[NoFields EXCEPT !.headers = h, !.mergeSearchParams = "throws"] :
             h \in HeaderSamples}
    \cup {[NoFields EXCEPT !.baseUrl = b] : b \in BaseUrls}
    \cup {[NoFields EXCEPT !.headers = h] : h \in HeaderSamples}

\* client.setDefaults(update) with an update that may throw
SetDefaultsFailing ==
    /\ history.updates < MaxUpdates
    /\ \E update \in FailingUpdates :
         LET after == setDefaults(defaults, listeners, history, update, {})
         IN  /\ defaults' = after.defaults
             /\ history' = after.history
    /\ UNCHANGED <<listeners, merge, input, hooks, config, signal, locked, call,
                   ops, peer>>

FailingNext == SetDefaultsFailing \/ AddEventListener

FailingSpec == DefaultsInit /\ [][FailingNext]_vars

\* ------------------------------------------------------ the hook registry
\* the callbacks a caller holds, and the two registries of this.hooks
Callbacks == {1, 2}
HookKinds == {"beforeRequest", "afterResponse"}

\* this.hooks[hookName].add(hook): a Set keeps a member it already holds
\* where it is
addHook(h, kind, cb) ==
    IF cb \in Members(h[kind]) THEN h
    ELSE [h EXCEPT ![kind] = Append(@, cb)]

\* this.hooks[hookName].delete(hook)
removeHook(h, kind, cb) ==
    [h EXCEPT ![kind] = SelectSeq(@, LAMBDA member : member # cb)]

\* variant: without argument only the pre-send hooks are cleared
clearHooks_OnlyBefore(h, kind) ==
    IF kind \in HookKinds THEN [h EXCEPT ![kind] = <<>>]
    ELSE [h EXCEPT !["beforeRequest"] = <<>>]

\* if (hookName) this.hooks[hookName].clear(); else every registry is cleared
clearHooks(h, kind) ==
    IF kind \in HookKinds THEN [h EXCEPT ![kind] = <<>>]
    ELSE [beforeRequest |-> <<>>, afterResponse |-> <<>>]

\* the record of one more registry operation
Operated(op, kind, cb) ==
    [ops EXCEPT !.count = @ + 1,
                !.last = [op |-> op, kind |-> kind, cb |-> cb]]

\* client.addHook(kind, cb); the remover it returns is kept by the caller
AddHook ==
    /\ call.pc = "idle" /\ ops.count < MaxOps
    /\ \E kind \in HookKinds, cb \in Callbacks :
         /\ hooks' = addHook(hooks, kind, cb)
         /\ ops' = [Operated("addHook", kind, cb) EXCEPT
                       !.added = @ \cup {<<kind, cb>>}]
    /\ UNCHANGED <<defaults, listeners, history, merge, input,
                   config, signal, locked, call, peer>>

\* client.removeHook(kind, cb), of a callback registered or not
RemoveHook ==
    /\ call.pc = "idle" /\ ops.count < MaxOps
    /\ \E kind \in HookKinds, cb \in Callbacks :
         /\ hooks' = removeHook(hooks, kind, cb)
         /\ ops' = Operated("removeHook", kind, cb)
    /\ UNCHANGED <<defaults, listeners, history, merge, input,
                   config, signal, locked, call, peer>>

\* a remover returned by addHook is called: () => this.removeHook(hookName, hook)
CallRemover ==
    /\ call.pc = "idle" /\ ops.count < MaxOps
    /\ \E pair \in ops.added :
         /\ hooks' = removeHook(hooks, pair[1], pair[2])
         /\ ops' = Operated("remover", pair[1], pair[2])
    /\ UNCHANGED <<defaults, listeners, history, merge, input,
                   config, signal, locked, call, peer>>

\* client.clearHooks(kind) or client.clearHooks()
ClearHooks ==
    /\ call.pc = "idle" /\ ops.count < MaxOps
    /\ \E kind \in HookKinds \cup {"every"} :
         /\ hooks' = clearHooks(hooks, kind)
         /\ ops' = Operated("clearHooks", kind, 0)
    /\ UNCHANGED <<defaults, listeners, history, merge, input,
                   config, signal, locked, call, peer>>

\* a new client without hooks; a fetch call is started after the operations
HooksInit ==
    /\ NewClient(NoFields)
    /\ merge = NoMerge
    /\ input = PlainInput
    /\ config = PlainConfig
    /\ PlainCall

HooksNext ==
    \/ AddHook \/ RemoveHook \/ CallRemover \/ ClearHooks
    \/ Fetch \/ BeforeRequestSettles
    \/ TransportResolves \/ TransportRejects
    \/ AfterResponseSettles

HooksSpec == HooksInit /\ [][HooksNext]_vars

\* ------------------------------------- the registry changed during a call
\* this.hooks.beforeRequest.values() and this.hooks.afterResponse.values()
\* are live iterators of the registries: a member deleted before the
\* iterator's position moves the position of the remaining ones, a member
\* added is met at the end
Deleted(c, h, kind, cb) ==
    LET before == {i \in DOMAIN h[kind] : h[kind][i] = cb}
    IN  IF kind = "beforeRequest"
        THEN [c EXCEPT !.beforeIter = @ - Cardinality({i \in before : i <= c.beforeIter})]
        ELSE [c EXCEPT !.afterIter = @ - Cardinality({i \in before : i <= c.afterIter})]

\* the awaits of a call at which its iterators exist and other code may run
Awaits == {"beforeRequest", "inflight", "afterResponse"}

\* a hook of the call, or other code run at one of its awaits, calls
\* client.addHook(kind, cb)
AddHookMeanwhile ==
    /\ call.pc \in Awaits /\ ops.count < MaxOps
    /\ \E kind \in HookKinds, cb \in Callbacks :
         /\ hooks' = addHook(hooks, kind, cb)
         /\ ops' = [Operated("addHook", kind, cb) EXCEPT
                       !.added = @ \cup {<<kind, cb>>}]
    /\ UNCHANGED <<defaults, listeners, history, merge, input,
                   config, signal, locked, call, peer>>

\* a hook of the call, or other code run at one of its awaits, calls
\* client.removeHook(kind, cb)
RemoveHookMeanwhile ==
    /\ call.pc \in Awaits /\ ops.count < MaxOps
    /\ \E kind \in HookKinds, cb \in Callbacks :
         /\ hooks' = removeHook(hooks, kind, cb)
         /\ call' = Deleted(call, hooks, kind, cb)
         /\ ops' = Operated("removeHook", kind, cb)
    /\ UNCHANGED <<defaults, listeners, history, merge, input,
                   config, signal, locked, peer>>

\* a new client with one hook or none in each registry, and a call about to
\* be made
MeanwhileInit ==
    /\ NewClient(NoFields)
    /\ merge = NoMerge
    /\ input = PlainInput
    /\ config = PlainConfig
    /\ signal = "absent"
    /\ locked = FALSE
    /\ call = IdleCall
    /\ hooks \in [beforeRequest : {<<>>, <<1>>}, afterResponse : {<<>>, <<1>>}]

MeanwhileNext ==
    \/ AddHookMeanwhile \/ RemoveHookMeanwhile
    \/ Fetch \/ BeforeRequestSettles
    \/ TransportResolves
    \/ AfterResponseSettles

MeanwhileSpec == MeanwhileInit /\ [][MeanwhileNext]_vars

\* ------------------------------------- the defaults changed during a call
\* the updates tried during a call: another error predicate, a base URL
UpdatesMeanwhile ==
    {[NoFields EXCEPT !.isResponseError = p] : p \in Predicates}
    \cup {[NoFields EXCEPT !.baseUrl = b] : b \in BaseUrls}

\* a hook of the call, or other code run at one of its awaits, calls
\* client.setDefaults(update)
SetDefaultsMeanwhile ==
    /\ call.pc \in Awaits
    /\ history.updates < MaxUpdates
    /\ \E update \in UpdatesMeanwhile :
         LET after == setDefaults(defaults, listeners, history, update, {})
         IN  /\ defaults' = after.defaults
             /\ history' = after.history
    /\ UNCHANGED <<listeners, merge, input, hooks, config, signal, locked, call,
                   ops, peer>>

\* the awaited pre-send hook returns a descriptor of its own
BeforeRequestReturnsOwn ==
    /\ call.pc = "beforeRequest"
    /\ call' = BeforeRequestLoop(Adopt(call, "own"))
    /\ UNCHANGED <<store, hooks, config, signal, locked>>

\* a new client and a call about to be made, with one pre-send hook or none;
\* the timeout and the retry policy are those of the field defaults
DuringCallInit ==
    /\ NewClient(NoFields)
    /\ merge = NoMerge
    /\ input = PlainInput
    /\ config = [retry |-> NoRetry, timeout |-> DEFAULT_TIMEOUT, body |-> "none"]
    /\ signal = "absent"
    /\ locked = FALSE
    /\ call = IdleCall
    /\ hooks \in [beforeRequest : {<<>>, <<1>>}, afterResponse : {<<>>}]

DuringCallNext ==
    \/ SetDefaultsMeanwhile
    \/ Fetch
    \/ BeforeRequestSettles
    \/ BeforeRequestReturnsOwn
    \/ TransportResolves
    \/ TransportRejects
    \/ TransportAborted
    \/ TimeoutFires

DuringCallSpec == DuringCallInit /\ [][DuringCallNext]_vars

\* ------------------------------------------------ two calls, one client
\* the policies and timeouts of two calls made through one client
ConcurrentConfigs ==
    [retry : {NoRetry} \cup {r \in RetryOptions : /\ r.limit = 1
                                                  /\ r.delay = "number"
                                                  /\ r.retryOn = "unset"},
     timeout : Timeouts, body : {"none"}]

\* the locals of a call are those of its own invocation of fetch: the
\* descriptor, the loop counter, lastError, the controller and the timer
Context(c, cfg, sig, lk) ==
    [call |-> c, config |-> cfg, signal |-> sig, locked |-> lk]

\* the event loop runs a continuation of the other call next: the running
\* call is suspended at its await with its locals, the other one resumes
Switch ==
    /\ call' = peer.call
    /\ config' = peer.config
    /\ signal' = peer.signal
    /\ locked' = peer.locked
    /\ peer' = Context(call, config, signal, locked)
    /\ UNCHANGED <<defaults, listeners, history, merge, input, ops, hooks>>

\* two calls about to be made through a new client, each with its own
\* options and signal
ConcurrentInit ==
    /\ defaults = Constructed(NoFields).defaults
    /\ history = [Constructed(NoFields).history EXCEPT !.updates = 0]
    /\ listeners = <<>>
    /\ ops = NoOps
    /\ merge = NoMerge
    /\ input = PlainInput
    /\ hooks = [beforeRequest |-> <<>>, afterResponse |-> <<>>]
    /\ locked = FALSE
    /\ call = IdleCall
    /\ config \in ConcurrentConfigs
    /\ signal \in {"absent", "armed"}
    /\ \E cfg \in ConcurrentConfigs, sig \in {"absent", "armed"} :
          peer = Context(IdleCall, cfg, sig, FALSE)

ConcurrentNext ==
    \/ Switch
    \/ Fetch
    \/ TransportResolves
    \/ TransportRejects
    \/ TransportAborted
    \/ TimeoutFires
    \/ CallerAborts
    \/ RetryDelayElapses

ConcurrentSpec == ConcurrentInit /\ [][ConcurrentNext]_vars


\* ------------------------------------------------------- claim vocabulary
Last(q) == q[Len(q)]

\* this step settled a transport invocation with the given record
SettledWith(o) ==
    /\ call.pc = "inflight"
    /\ Len(call'.transportLog) = Len(call.transportLog) + 1
    /\ Last(call'.transportLog) = o

\* this step, or the delay it started, leads to another transport invocation
Retried ==
    \/ call'.pc = "delay" /\ call.pc # "delay"
    \/ call'.pc = "inflight" /\ call'.calls = call.calls + 1 /\ call.calls >= 1

\* nothing of retry evaluation happened in this step
NoRetryEvaluation ==
    /\ call'.retryOnLog = call.retryOnLog
    /\ call'.evals = call.evals
    /\ call'.delayLog = call.delayLog
    /\ call'.calls = call.calls

\* a completed call does nothing more
TerminalStays == call.pc \in Terminal => call' = call

\* C1: when the transport in flight rejects with the caller's AbortError (the
\* caller's signal fired and the transport honoured it), the call rejects with
\* that very error in the same step, with no retry predicate call, no delay,
\* no further transport invocation, whatever the retry policy; and the
\* rejected call stays as it is.
C1_CallerAbortRejectsWithoutRetry ==
    [][ /\ SettledWith(Outcome("aborted", "AbortError")) =>
             /\ call'.pc = "rejected"
             /\ call'.error = Err("AbortError", 0, 0)
             /\ NoRetryEvaluation
        /\ TerminalStays ]_vars

\* C1 witness: a caller abort has rejected a call in its first attempt although
\* two retries remained and there was no predicate to forbid them
C1_Witness ==
    /\ call.pc = "rejected"
    /\ signal = "AbortError"
    /\ call.error = Err("AbortError", 0, 0)
    /\ call.transportLog = <<Outcome("aborted", "AbortError")>>
    /\ config.retry.active /\ config.retry.limit = 2
    /\ config.retry.retryOn = "unset"
    /\ call.attempt = 0

\* C2 (as claimed): once the caller's signal has fired (here with the default
\* AbortError reason) in a call that has invoked the transport, the call starts
\* no further transport invocation.
C2_NoInvocationAfterAbort ==
    [][ (signal = "AbortError" /\ call.calls >= 1)
          => call'.calls = call.calls ]_vars

\* C3: retry policy of limit L without predicate, no post-receive hook, body
\* not a locked stream: while the transport has only thrown network errors, at
\* most L of them, the call has not given up; and once it has thrown k <= L
\* times and then returned a non-error response, the call has resolved with
\* exactly that response after exactly k+1 invocations.
OnlyNetworkErrors(log) ==
    \A i \in 1..Len(log) : log[i] = Outcome("threw", "NetworkError")

C3_RetriesUntilSuccess ==
    (/\ config.retry.active /\ config.retry.retryOn = "unset"
     /\ config.retry.limit >= 0
     /\ hooks.afterResponse = <<>>
     /\ ~(config.body = "stream" /\ locked)
     /\ ActivePredicate(call) = "builtin"
     /\ call.transportLog # <<>>)
    => LET log == call.transportLog
           k == Len(log) - 1
           L == config.retry.limit
       IN  /\ (OnlyNetworkErrors(log) /\ Len(log) <= L)
                => /\ call.pc \in {"inflight", "delay"}
                   /\ call.attempt = IF call.pc = "delay" THEN k ELSE k + 1
                   /\ call.calls = IF call.pc = "delay" THEN k + 1 ELSE k + 2
           /\ (OnlyNetworkErrors(SubSeq(log, 1, k)) /\ k <= L
               /\ log[k + 1] = Outcome("ok", "none"))
                => /\ call.pc = "resolved"
                   /\ call.calls = k + 1
                   /\ call.result = call.response.id
                   /\ call.response.ok

\* C3 witness: the spec's case, limit 2, two failures, then success
C3_Witness ==
    /\ config.retry.active /\ config.retry.limit = 2
    /\ config.retry.retryOn = "unset"
    /\ hooks.afterResponse = <<>>
    /\ call.transportLog = <<Outcome("threw", "NetworkError"),
                             Outcome("threw", "NetworkError"),
                             Outcome("ok", "none")>>
    /\ call.pc = "resolved" /\ call.calls = 3

\* C4: with a retry limit L >= 0 the attempt index is 0 at the first transport
\* invocation and one more at each further one, a further invocation follows
\* only an attempt whose index is below L, so there are at most L+1; without
\* a retry policy a call that reaches the transport invokes it exactly once.
C4_Limit == IF config.retry.active THEN config.retry.limit ELSE 0

C4_AttemptsBounded ==
    [][ C4_Limit >= 0 =>
          /\ call'.calls \in {call.calls, call.calls + 1}
          /\ call'.calls <= C4_Limit + 1
          /\ call'.attempt <= C4_Limit
          /\ call'.calls = call.calls + 1 =>
                /\ call'.attempt = call.calls
                /\ call.calls >= 1 => /\ call'.attempt = call.attempt + 1
                                      /\ call.attempt < C4_Limit
          /\ call'.calls = call.calls => call'.attempt = call.attempt
          /\ (~config.retry.active
              /\ call'.pc \in {"inflight", "afterResponse", "resolved"})
                => call'.calls = 1
          /\ (~config.retry.active /\ call'.pc = "rejected"
              /\ call'.error.name # "BeforeRequestHookError")
                => call'.calls = 1 ]_vars

\* C4 witness: a call with limit 2 is in its third and last invocation
C4_Witness ==
    /\ config.retry.active /\ config.retry.limit = 2
    /\ call.pc = "inflight" /\ call.attempt = 2 /\ call.calls = 3

\* C5: whenever a failed attempt reaches retry evaluation with its error, the
\* call retries iff attempt < limit, a policy is active, and no predicate is set
\* or the predicate, asked with (attempt, error), answers true; otherwise the
\* call rejects with that error.  A predicate answering false when first asked
\* leaves exactly one transport invocation.
C5_RetryIff ==
    [][ /\ Len(call'.evals) > Len(call.evals) =>
             LET e == Last(call'.evals)
                 asked == Len(call'.retryOnLog) > Len(call.retryOnLog)
                 permitted ==
                    /\ e[1] < config.retry.limit
                    /\ config.retry.active
                    /\ \/ config.retry.retryOn = "unset"
                       \/ asked /\ Last(call'.retryOnLog)[3]
             IN  /\ e[1] = call.attempt
                 /\ Retried <=> permitted
                 /\ ~permitted => call'.pc = "rejected" /\ call'.error = e[2]
                 /\ asked => /\ Last(call'.retryOnLog)[1] = e[1]
                             /\ Last(call'.retryOnLog)[2] = e[2]
        /\ (call'.retryOnLog # <<>> /\ ~call'.retryOnLog[1][3]) =>
             /\ call'.calls = 1
             /\ call'.pc = "rejected" ]_vars

\* C5 witness: limit 2, the predicate answered false for the first failure,
\* and the call has failed after one invocation
C5_Witness ==
    /\ config.retry.active /\ config.retry.limit = 2
    /\ config.retry.retryOn = "function"
    /\ call.retryOnLog = <<<<0, Err("NetworkError", 1, 0), FALSE>>>>
    /\ call.pc = "rejected" /\ call.calls = 1
    /\ call.error = Err("NetworkError", 1, 0)

\* C6: with a timeout, when the timer fires before the transport has settled
\* (and the caller has not aborted before), the signal the transport holds is
\* aborted with the FetchClientTimeoutError reason; when the transport then
\* rejects with that reason, the call either rejects with that attempt's
\* FetchClientTimeoutError, which is no AbortError, or retries, and it retries
\* only if the policy permits a retry.
C6_TimeoutAbortsWithMarker ==
    [][ /\ (/\ call.pc = "inflight" /\ call'.pc = "inflight"
            /\ call.timerArmed /\ ~call'.timerArmed
            /\ call.anySignal = "armed")
             => /\ config.timeout # TimeoutOff
                /\ call'.anySignal = "FetchClientTimeoutError"
        /\ SettledWith(Outcome("aborted", "FetchClientTimeoutError")) =>
             \/ /\ call'.pc = "rejected"
                /\ call'.error = Err("FetchClientTimeoutError", call.calls, 0)
                /\ call'.error.name # "AbortError"
             \/ /\ Retried
                /\ config.retry.active /\ call.attempt < config.retry.limit
                /\ \/ config.retry.retryOn = "unset"
                   \/ Last(call'.retryOnLog) =
                        <<call.attempt,
                          Err("FetchClientTimeoutError", call.calls, 0), TRUE>>
      ]_vars

\* C6 witness: no retry policy, the timeout fired while the caller's signal was
\* not aborted, and the call has rejected with the timeout error
C6_Witness ==
    /\ ~config.retry.active
    /\ config.timeout = DEFAULT_TIMEOUT
    /\ signal = "armed"
    /\ call.transportLog = <<Outcome("aborted", "FetchClientTimeoutError")>>
    /\ call.pc = "rejected"
    /\ call.error = Err("FetchClientTimeoutError", 1, 0)

\* C7: retry policy of limit L >= 0, body not a locked stream, and every
\* transport invocation so far ended by the timeout abort: if the predicate
\* (if any) accepted each time it was asked, the call is still trying or has
\* rejected, it has rejected exactly when L+1 invocations timed out, and then
\* with the last attempt's timeout error; if the predicate refused when first
\* asked, the call has rejected with the timeout error after one invocation.
AllTimedOut(log) ==
    \A i \in 1..Len(log) : log[i] = Outcome("aborted", "FetchClientTimeoutError")

C7_TimeoutIsRetried ==
    (/\ config.retry.active /\ config.retry.limit >= 0
     /\ ~(config.body = "stream" /\ locked)
     /\ call.transportLog # <<>>
     /\ AllTimedOut(call.transportLog))
    => LET L == config.retry.limit
           n == Len(call.transportLog)
           asked == call.retryOnLog
           accepts == \A i \in 1..Len(asked) : asked[i][3]
       IN  /\ accepts =>
                /\ call.pc \in {"inflight", "delay", "rejected"}
                /\ call.pc = "rejected" <=> n = L + 1
                /\ call.pc = "rejected" =>
                      /\ call.calls = L + 1
                      /\ call.error = Err("FetchClientTimeoutError", L + 1, 0)
                /\ config.retry.retryOn = "function" =>
                      /\ Len(asked) = IF n <= L THEN n ELSE L
                      /\ \A i \in 1..Len(asked) : asked[i] =
                            <<i - 1, Err("FetchClientTimeoutError", i, 0), TRUE>>
           /\ (asked # <<>> /\ ~asked[1][3]) =>
                /\ call.pc = "rejected"
                /\ call.calls = 1
                /\ call.error = Err("FetchClientTimeoutError", 1, 0)

\* C7 witness: limit 2, the predicate accepted two timeouts, the third
\* invocation timed out too and the call has rejected with its timeout error
C7_Witness ==
    /\ config.retry.active /\ config.retry.limit = 2
    /\ config.retry.retryOn = "function"
    /\ Len(call.transportLog) = 3 /\ AllTimedOut(call.transportLog)
    /\ Len(call.retryOnLog) = 2
    /\ call.pc = "rejected" /\ call.calls = 3
    /\ call.error = Err("FetchClientTimeoutError", 3, 0)

\* C8: when a transport invocation throws (of its own or on abort) and the
\* body is a ReadableStream locked at that moment, the call rejects with that
\* error in the same step: no retry evaluation, no predicate call, no delay,
\* no further invocation; and the rejected call stays as it is.
C8_LockedStreamNotRetried ==
    [][ /\ (/\ call.pc = "inflight"
            /\ Len(call'.transportLog) = Len(call.transportLog) + 1
            /\ Last(call'.transportLog).outcome \in {"threw", "aborted"}
            /\ config.body = "stream" /\ locked')
             => /\ call'.pc = "rejected"
                /\ call'.error.name = Last(call'.transportLog).error
                /\ call'.error.at \in {0, call.calls}
                /\ call'.error = call'.lastError
                /\ NoRetryEvaluation
        /\ TerminalStays ]_vars

\* C8 witness: the first invocation read the stream and threw a network error;
\* the call has rejected at attempt 0 although limit 2 without predicate
\* would have allowed two retries
C8_Witness ==
    /\ config.body = "stream" /\ locked
    /\ config.retry.active /\ config.retry.limit = 2
    /\ config.retry.retryOn = "unset"
    /\ call.transportLog = <<Outcome("threw", "NetworkError")>>
    /\ call.pc = "rejected" /\ call.attempt = 0 /\ call.calls = 1
    /\ call.error = Err("NetworkError", 1, 0)

\* the `request` property as decorateResponse defines it
C9_Property(response, request) ==
    [response |-> response, value |-> request, writable |-> FALSE,
     configurable |-> FALSE, enumerable |-> TRUE]

\* C9 (as claimed): the `request` property of the returned response is the
\* very object the transport was given on the final attempt.
C9_RequestIsTransportArgument ==
    call.pc = "resolved" => \A d \in call.decorated : d.value = call.sent

\* C9 (amended): a resolved call has defined `request` exactly once, on the
\* response it returns, non-writable, non-configurable, enumerable, with the
\* call's request descriptor as value: the descriptor every attempt's
\* transport options are taken from, and the transport's very argument when
\* the timeout is disabled.  A call that has not resolved has defined nothing.
C9_DecoratedOnceOnSuccess ==
    /\ call.pc = "resolved" =>
          /\ call.decorated = {C9_Property(call.result, call.request)}
          /\ call.defineCalls = 1
          /\ call.result = call.response.id /\ call.result # 0
          /\ ~isResponseError(call, call.response)
          /\ call.sentFrom = call.request
          /\ config.timeout = TimeoutOff => call.sent = call.request
    /\ call.pc # "resolved" =>
          /\ call.decorated = {}
          /\ call.defineCalls = 0

\* C9 witness: a call resolved on a retry, after an error response, with a
\* descriptor a pre-send hook had replaced
C9_Witness ==
    /\ call.pc = "resolved"
    /\ call.request = 2
    /\ call.attempt = 1
    /\ call.transportLog = <<Outcome("notok", "none"), Outcome("ok", "none")>>
    /\ call.decorated = {C9_Property(call.response.id, 2)}

\* C10: a resolved call has a decorated response and no error, a rejected
\* call has an error and no response, and (the awaited promises settling)
\* every call that was started ends resolved or rejected.
C10_EveryCallSettles ==
    /\ [](call.pc = "resolved" =>
            /\ call.result # 0
            /\ \E d \in call.decorated : d.response = call.result
            /\ call.error = NoError)
    /\ [](call.pc = "rejected" =>
            /\ call.error # NoError
            /\ call.result = 0 /\ call.decorated = {})
    /\ [](call.pc \in {"idle", "beforeRequest", "inflight", "afterResponse",
                       "delay", "resolved", "rejected"})
    /\ (call.pc # "idle") ~> (call.pc \in Terminal)

\* C10 witness: a call has gone through a retry delay and every retry the
\* limit allows, and has settled
C10_Witness ==
    /\ call.pc \in Terminal
    /\ config.retry.active /\ config.retry.limit = 2
    /\ config.retry.delay = "function"
    /\ Len(call.delayLog) = 2 /\ call.calls = 3

\* this step classified the response call'.response: the transport returned it
\* and no post-receive hook was left to run, or the last such hook settled
\* without throwing
Classified ==
    \/ /\ call.pc = "inflight"
       /\ Len(call'.transportLog) = Len(call.transportLog) + 1
       /\ Last(call'.transportLog).outcome \in {"ok", "notok"}
       /\ call'.pc # "afterResponse"
    \/ /\ call.pc = "afterResponse"
       /\ call'.pc # "afterResponse"
       /\ call'.lastError # Err("AfterResponseHookError", call.calls, 0)

\* the predicate in force for the call: the call's own, else that of the
\* defaults, else !response.ok
C11_Predicate ==
    IF input.isResponseError # "unset" THEN input.isResponseError
    ELSE IF defaults.isResponseError # "unset" THEN defaults.isResponseError
    ELSE "builtin"

\* C11: when a response is classified, if the predicate in force takes it for
\* an error the call retries or rejects, it rejects when no retry policy is
\* active or the attempt index has reached the limit, and it rejects with a
\* FetchClientError that carries the response, its status, its status text and
\* the request descriptor; if the predicate does not take it for an error
\* (whatever its status) the call resolves with that response.
C11_ClassifiedByActivePredicate ==
    [][ Classified =>
          LET r == call'.response
          IN  IF Apply(C11_Predicate, r)
              THEN /\ Retried \/ call'.pc = "rejected"
                   /\ (~config.retry.active \/ call.attempt >= config.retry.limit)
                        => call'.pc = "rejected"
                   /\ call'.pc = "rejected" =>
                        /\ call'.error.name = "FetchClientError"
                        /\ call'.error.response = r.id
                        /\ call'.error.status = r.status
                        /\ call'.error.statusText = r.statusText
                        /\ call'.error.request = call.request
                        /\ call'.error.at = call.calls
              ELSE /\ call'.pc = "resolved"
                   /\ call'.result = r.id
                   /\ call'.error = NoError ]_vars

\* C11 witness: the defaults take every response for an error, the call's own
\* predicate only 5xx; a 404 response has been returned as the success
C11_Witness ==
    /\ defaults.isResponseError = "everyResponse"
    /\ input.isResponseError = "serverErrors"
    /\ call.pc = "resolved"
    /\ call.response.status = 404 /\ ~call.response.ok
    /\ call.result = call.response.id

\* this step is a setDefaults call; history'.last tells what it did
SetDefaultsCalled == history'.updates = history.updates + 1

\* C12: a setDefaults call whose update function returns the current snapshot
\* itself leaves the stored snapshot as it is (same object, same contents),
\* runs no merge strategy and calls no listener.
C12_IdentityUpdateIsNoOp ==
    [][ (SetDefaultsCalled /\ history'.last.update.fn = "identity") =>
          /\ defaults' = defaults
          /\ defaults'.id = defaults.id
          /\ history'.last.merges = <<>>
          /\ history'.last.notified = <<>>
          /\ history'.ids = history.ids ]_vars

\* C12 witness: with two listeners registered and headers stored by an
\* earlier update, the identity update has been made
C12_Witness ==
    /\ history.updates = 2
    /\ history.last.update.fn = "identity"
    /\ Len(listeners) = 2
    /\ defaults.headers.entries # <<>>
    /\ history.last.notified = <<>>

\* the snapshot, its headers object, its searchParams array and every entry
\* of it are frozen
DeeplyFrozen(d) ==
    /\ d.frozen
    /\ d.headers.frozen
    /\ d.searchParams.frozen
    /\ \A i \in DOMAIN d.searchParams.entries : d.searchParams.entries[i].frozen

C14_EveryListenerNotifiedOnce ==
    [][ (SetDefaultsCalled /\ history'.last.update.fn # "identity") =>
          LET notified == history'.last.notified
          IN  /\ Len(notified) = Len(listeners)
              /\ \A i \in 1..Len(listeners) :
                    /\ Cardinality({j \in DOMAIN notified :
                                      notified[j].listener = listeners[i]}) = 1
                    /\ notified[i].listener = listeners[i]
              /\ \A j \in DOMAIN notified :
                    notified[j].snapshot = defaults'.id ]_vars

\* C14 witness: setDefaults({}) after an earlier update, with two listeners:
\* no value differs, a new snapshot is stored and both listeners got it
C14_Witness ==
    /\ history.updates = 2
    /\ history.last.update = NoFields
    /\ Len(listeners) = 2
    /\ history.last.notified =
          <<Notified(1, defaults, FALSE, FALSE),
            Notified(2, defaults, FALSE, FALSE)>>

\* the strategy in force after an update that supplied `supplied` (a function,
\* null, or nothing) while `current` was in force
C15_Expected(current, supplied) ==
    IF supplied = "null" THEN "builtin"
    ELSE IF supplied \in Strategies \cup Resolvers THEN supplied
    ELSE current

\* C15: in every setDefaults call other than the identity no-op, for each of
\* mergeHeaders, mergeSearchParams and resolveUrl the snapshot stored holds
\* the function the update supplied, the built-in if the update supplied
\* null, and the strategy in force before if it supplied neither; and the
\* two merges of that call were made by the strategies so stored: a merge
\* supplied as "keep only the incoming" leaves exactly the update's own
\* headers or query parameters, one supplied as "empty" leaves none.
C15_LatestStrategyWins ==
    [][ (SetDefaultsCalled /\ history'.last.update.fn # "identity") =>
          LET u == history'.last.update
              did == history'.last.merges
          IN  /\ defaults'.mergeHeaders =
                    C15_Expected(defaults.mergeHeaders, u.mergeHeaders)
              /\ defaults'.mergeSearchParams =
                    C15_Expected(defaults.mergeSearchParams, u.mergeSearchParams)
              /\ defaults'.resolveUrl =
                    C15_Expected(defaults.resolveUrl, u.resolveUrl)
              /\ did = <<[merge |-> "headers",
                          strategy |-> defaults'.mergeHeaders],
                         [merge |-> "searchParams",
                          strategy |-> defaults'.mergeSearchParams]>>
              /\ defaults'.mergeHeaders = "none" =>
                    defaults'.headers.entries = <<>>
              /\ defaults'.mergeSearchParams = "none" =>
                    defaults'.searchParams.entries = <<>>
              /\ (defaults'.mergeHeaders = "incomingOnly" /\ u.fn = "literal") =>
                    defaults'.headers.entries =
                        HeadersEntries(NewHeaders(u.headers))
              /\ (defaults'.mergeSearchParams = "incomingOnly"
                  /\ u.fn = "literal") =>
                    ParamsOf(defaults') = NewURLSearchParams(u.searchParams)
      ]_vars

\* C15 witness: a header merge supplied by the first update is still in force
\* after a second update that did not name it, and that second update
\* supplied a query merge ("empty") which merged its own query parameters
C15_Witness ==
    /\ history.updates = 2
    /\ history.last.update =
          [NoFields EXCEPT !.searchParams = <<<<"a", <<1>>>>>>,
                           !.mergeSearchParams = "none"]
    /\ defaults.mergeHeaders = "incomingOnly"
    /\ defaults.mergeSearchParams = "none"
    /\ defaults.resolveUrl = "builtin"
    /\ defaults.searchParams.entries = <<>>

\* the pairs a URLSearchParamsInit gives, none for undefined
C16_Pairs(init) == IF init = Undefined THEN <<>> ELSE init

\* the keys that occur in a list of pairs
C16_Keys(pairs) == {pairs[i][1] : i \in DOMAIN pairs}

\* C16: the built-in query merge of base and incoming is the list of the base
\* pairs whose key (compared as written, case included) does not occur in
\* incoming, in base order, followed by all incoming pairs in incoming order.
C16_QueryMerge ==
    (merge.fn = "searchParams" /\ merge.done) =>
        merge.out =
            SelectSeq(C16_Pairs(merge.a),
                      LAMBDA pair : pair[1] \notin C16_Keys(C16_Pairs(merge.b)))
            \o C16_Pairs(merge.b)

\* C16 witness: base [a:1, A:1] merged with incoming [a:2, a:3] has given
\* [A:1, a:2, a:3]: the base pair of "a" is gone, "A" is kept, and both
\* incoming pairs of "a" are there
C16_Witness ==
    /\ merge.fn = "searchParams" /\ merge.done
    /\ merge.a = <<<<"a", <<1>>>>, <<"A", <<1>>>>>>
    /\ merge.b = <<<<"a", <<2>>>>, <<"a", <<3>>>>>>
    /\ merge.out = <<<<"A", <<1>>>>, <<"a", <<2>>>>, <<"a", <<3>>>>>>

\* the pairs a HeadersInit gives, none for undefined
C17_Pairs(init) == IF init = Undefined THEN <<>> ELSE init

\* the lower-cased names that occur in a list of pairs
C17_Names(pairs) == {Lower(pairs[i][1]) : i \in DOMAIN pairs}

\* the value of the last pair of a list whose name, lower-cased, is k
C17_Later(pairs, k) ==
    LET at == {i \in DOMAIN pairs : Lower(pairs[i][1]) = k}
    IN  pairs[CHOOSE i \in at : \A j \in at : j <= i][2]

\* C17 (as claimed): the built-in header merge of base and incoming has one
\* entry for each name of either side, names compared without case; a name of
\* incoming holds the value incoming gave it, a name of base alone the value
\* base gave it, and where a side gives a name twice the later value is held.
C17_HeaderMerge ==
    (merge.fn = "headers" /\ merge.done) =>
        LET base == C17_Pairs(merge.a)
            incoming == C17_Pairs(merge.b)
        IN  /\ DOMAIN merge.out = C17_Names(base) \cup C17_Names(incoming)
            /\ \A k \in DOMAIN merge.out :
                  merge.out[k] = IF k \in C17_Names(incoming)
                                 THEN C17_Later(incoming, k)
                                 ELSE C17_Later(base, k)

\* the entries of a list of pairs under key k
C18_Under(pairs, k) == SelectSeq(pairs, LAMBDA pair : pair[1] = k)

\* the three layers of the call: the defaults' parameters, the parameters
\* embedded in the resolved URL, the call's parameters
C18_Defaults == C16_Pairs(ParamsOf(defaults))
C18_Embedded ==
    ResolveUrlWith(defaults.resolveUrl, input.url, BaseUrlOf(defaults)).search
C18_Supplied == C16_Pairs(input.searchParams)

\* C18: the query of the URL given to the transport is
\* merge(merge(defaults, URL-embedded), call-supplied) under the active query
\* merge; under the built-in merge the entries sent under a key are the
\* call's when the call holds the key, else the URL's when the URL holds it,
\* else the defaults'.
C18_ThreeLayerQuery ==
    (call.calls >= 1) =>
        /\ call.sentUrl.search =
               MergeSearchParamsWith(defaults.mergeSearchParams,
                   MergeSearchParamsWith(defaults.mergeSearchParams,
                                         C18_Defaults, C18_Embedded),
                   C18_Supplied)
        /\ defaults.mergeSearchParams = "builtin" =>
               \A k \in ParamKeys :
                  C18_Under(call.sentUrl.search, k) =
                      IF k \in C16_Keys(C18_Supplied) THEN C18_Under(C18_Supplied, k)
                      ELSE IF k \in C16_Keys(C18_Embedded)
                           THEN C18_Under(C18_Embedded, k)
                           ELSE C18_Under(C18_Defaults, k)

\* C18 witness: defaults [a:1, A:1], URL ?a=2 and call [a:3, a:2] under the
\* built-in merge: the transport got A=1 of the defaults and a=3, a=2 of the
\* call, the URL's a=2 and the defaults' a=1 overridden
C18_Witness ==
    /\ call.calls >= 1
    /\ defaults.mergeSearchParams = "builtin"
    /\ defaults.resolveUrl = "builtin"
    /\ C18_Defaults = <<<<"a", <<1>>>>, <<"A", <<1>>>>>>
    /\ input.url = [kind |-> "relative", search |-> <<<<"a", <<2>>>>>>]
    /\ input.searchParams = <<<<"a", <<3>>>>, <<"a", <<2>>>>>>
    /\ call.sentUrl.search = <<<<"A", <<1>>>>, <<"a", <<3>>>>, <<"a", <<2>>>>>>

\* the base URL of the call, the call's before the defaults'
C19_Base == IF input.baseUrl # "unset" THEN input.baseUrl ELSE defaults.baseUrl

\* the call was rejected with this error before any hook or transport ran
C19_RejectedEarly(name) ==
    /\ call.pc = "rejected"
    /\ call.error.name = name
    /\ call.calls = 0
    /\ call.beforeLog = <<>>

\* C19 (as claimed): under the built-in resolver a relative input with no
\* base of the call and none of the defaults rejects with "No URL provided"
\* before any hook or transport invocation.
C19_RelativeWithoutBaseIsNoUrl ==
    (/\ call.pc # "idle"
     /\ defaults.resolveUrl = "builtin"
     /\ input.url.kind \in {"empty", "relative"}
     /\ C19_Base = "unset") => C19_RejectedEarly("No URL provided")

\* C19 (amended): under the built-in resolver an absolute input, string or
\* URL object, resolves to itself whatever the base; an input resolved
\* against a base takes the call's base before the defaults'; a relative
\* input resolves against the base and an empty input to the base itself;
\* without any base the empty input rejects with "No URL provided" and a
\* non-empty relative input with the TypeError of the URL constructor, both
\* before any hook or transport invocation.
C19_UrlResolution ==
    (call.pc # "idle" /\ defaults.resolveUrl = "builtin") =>
        CASE input.url.kind \in {"absolute", "object"} ->
               /\ call.url.origin = "https://absolute.example"
               /\ call.url.path = "/path"
               /\ call.calls >= 1 => call.sentUrl.origin = "https://absolute.example"
          [] input.url.kind = "relative" /\ C19_Base # "unset" ->
               /\ call.url.origin = C19_Base
               /\ call.url.path = "/users"
               /\ call.calls >= 1 => call.sentUrl.origin = C19_Base
          [] input.url.kind = "empty" /\ C19_Base # "unset" ->
               /\ call.url.origin = C19_Base
               /\ call.url.path = "/"
          [] input.url.kind = "empty" /\ C19_Base = "unset" ->
               C19_RejectedEarly("No URL provided")
          [] input.url.kind = "relative" /\ C19_Base = "unset" ->
               C19_RejectedEarly("TypeError: Invalid URL")

\* C19 witness: a client with a hook and the default base api.default.com; a
\* relative input with the base api.custom.com of the call was sent to
\* api.custom.com
C19_Witness ==
    /\ defaults.resolveUrl = "builtin"
    /\ defaults.baseUrl = "https://api.default.com"
    /\ input.baseUrl = "https://api.custom.com"
    /\ input.url.kind = "relative"
    /\ Len(hooks.beforeRequest) = 1
    /\ call.calls = 1
    /\ call.sentUrl.origin = "https://api.custom.com"

\* the descriptor adopted after the j-th pre-send hook: the one it returned,
\* or the one it was given when it returned nothing
C20_Adopted(j) ==
    IF call.beforeReturned[j] # 0 THEN call.beforeReturned[j]
    ELSE call.beforeLog[j].request

\* C20: the pre-send hooks are invoked in insertion order, each once, all of
\* them before the first transport invocation and none after it (retries
\* included); each hook after the first is given the descriptor adopted after
\* the previous one (the descriptor that one returned, or the one it was given
\* when it returned nothing), and every transport invocation of the call is
\* made from the descriptor adopted after the last hook.
C20_BeforeRequestHooks ==
    /\ [](/\ Len(call.beforeLog) <= Len(hooks.beforeRequest)
          /\ \A i \in DOMAIN call.beforeLog :
                call.beforeLog[i].hook = hooks.beforeRequest[i]
          /\ Len(call.beforeReturned) \in
                {Len(call.beforeLog), Len(call.beforeLog) - 1}
          /\ \A i \in DOMAIN call.beforeLog :
                i > 1 => call.beforeLog[i].request = C20_Adopted(i - 1)
          /\ call.calls >= 1 =>
                /\ Len(call.beforeLog) = Len(hooks.beforeRequest)
                /\ Len(call.beforeReturned) = Len(hooks.beforeRequest)
                /\ call.sentFrom = call.request
                /\ Len(hooks.beforeRequest) >= 1 =>
                      call.sentFrom = C20_Adopted(Len(hooks.beforeRequest)))
    /\ [][call.calls >= 1 =>
            /\ call'.beforeLog = call.beforeLog
            /\ call'.beforeReturned = call.beforeReturned
            /\ call'.request = call.request]_vars

\* C20 witness: two hooks, the first returned a replacement and the second
\* nothing; the call is in its second transport invocation, made from the
\* first hook's replacement, and each hook has run once
C20_Witness ==
    /\ Len(hooks.beforeRequest) = 2
    /\ Len(call.beforeLog) = 2
    /\ Len(call.beforeReturned) = 2
    /\ call.beforeReturned[1] # 0
    /\ call.beforeReturned[2] = 0
    /\ call.beforeLog[2].request = call.beforeReturned[1]
    /\ call.calls = 2
    /\ call.pc = "inflight"
    /\ call.sentFrom = call.beforeReturned[1]

\* the post-receive hooks invoked during the attempt with index a, in order
C21_HooksRunAt(a) ==
    LET during == SelectSeq(call.afterLog, LAMBDA e : e[1] = a)
    IN  [i \in 1..Len(during) |-> during[i][2]]

\* C21 (as claimed): for the response a call returns as a success, on
\* whichever attempt it was obtained, the post-receive hooks have run during
\* that attempt in insertion order, each exactly once.
C21_HooksRunForReturnedResponse ==
    call.pc = "resolved" => C21_HooksRunAt(call.attempt) = hooks.afterResponse

\* the other registry
C22_Other(kind) == IF kind = "beforeRequest" THEN "afterResponse" ELSE "beforeRequest"

\* C22: a fetch call invokes only hooks that are registered when it starts,
\* so none that was removed before; removeHook(kind, cb) and the remover of
\* (kind, cb) take exactly cb out of the registry of that kind, keep the other
\* members and their order, leave the other registry alone and change nothing
\* when cb is not registered; clearHooks(kind) empties that registry only and
\* clearHooks() empties both.
C22_RemovedHooksNotInvoked ==
    /\ [](/\ \A i \in DOMAIN call.beforeLog :
                call.beforeLog[i].hook \in Members(hooks.beforeRequest)
          /\ \A i \in DOMAIN call.afterLog :
                call.afterLog[i][2] \in Members(hooks.afterResponse))
    /\ [][ops'.count = ops.count + 1 =>
            LET op == ops'.last IN
            /\ op.op \in {"removeHook", "remover"} =>
                  /\ hooks'[op.kind] =
                        SelectSeq(hooks[op.kind], LAMBDA member : member # op.cb)
                  /\ hooks'[C22_Other(op.kind)] = hooks[C22_Other(op.kind)]
                  /\ op.cb \notin Members(hooks[op.kind]) => hooks' = hooks
            /\ (op.op = "clearHooks" /\ op.kind \in HookKinds) =>
                  /\ hooks'[op.kind] = <<>>
                  /\ hooks'[C22_Other(op.kind)] = hooks[C22_Other(op.kind)]
            /\ (op.op = "clearHooks" /\ op.kind = "every") =>
                  hooks' = [beforeRequest |-> <<>>, afterResponse |-> <<>>]]_vars

\* C22 witness: after two pre-send hooks were added and the first was removed
\* by its remover, a call has resolved having invoked the second hook only
C22_Witness ==
    /\ ops.last = [op |-> "remover", kind |-> "beforeRequest", cb |-> 1]
    /\ ops.added = {<<"beforeRequest", 1>>, <<"beforeRequest", 2>>}
    /\ hooks.beforeRequest = <<2>>
    /\ call.pc = "resolved"
    /\ Len(call.beforeLog) = 1
    /\ call.beforeLog[1].hook = 2

\* C23: with timeout false no timer is armed and no derived signal made for
\* any transport invocation, which is given the request itself; such an
\* invocation ends aborted only once the caller's signal is aborted, and the
\* call never ends with a timeout error.  With a numeric timeout, 0 included,
\* every transport invocation in flight has its timer armed or its derived
\* signal already aborted.
C23_TimeoutDisabledOnlyByFalse ==
    /\ [](config.timeout = TimeoutOff =>
            /\ ~call.timerArmed
            /\ call.anySignal = "none"
            /\ call.calls >= 1 => call.sent = call.request
            /\ call.lastError.name # "FetchClientTimeoutError"
            /\ call.error.name # "FetchClientTimeoutError")
    /\ [](config.timeout # TimeoutOff /\ call.pc = "inflight" =>
            /\ call.sent # call.request
            /\ call.timerArmed \/ call.anySignal \in Aborted)
    /\ [][(/\ config.timeout = TimeoutOff
           /\ Len(call'.transportLog) = Len(call.transportLog) + 1
           /\ Last(call'.transportLog).outcome = "aborted")
              => signal \in AbortReasons]_vars

\* C23 witness: with timeout false and a retry allowed, a transport
\* invocation stayed pending until the caller aborted, and the call rejected
\* with the caller's reason after that single invocation
C23_Witness ==
    /\ config.timeout = TimeoutOff
    /\ config.retry.active /\ config.retry.limit >= 1
    /\ signal \in AbortReasons
    /\ call.pc = "rejected"
    /\ call.calls = 1
    /\ call.transportLog = <<Outcome("aborted", signal)>>

\* this step decided a retry that waits
C24_WaitStarted == call'.pc = "delay" /\ call.pc # "delay"

C25_ThrowingObserverIsContained ==
    [][(history'.updates = history.updates + 1 /\ ~IsSame(history'.last.update)) =>
          LET notified == history'.last.notified
          IN  /\ Len(notified) = Len(listeners)
              /\ \A i \in DOMAIN notified :
                    /\ notified[i].listener = listeners[i]
                    /\ notified[i].snapshot = defaults'.id
                    /\ notified[i].threw => notified[i].logged
              /\ history'.last.returned
              /\ defaults'.id # defaults.id
              /\ defaults'.frozen
              /\ history'.last.update.baseUrl # "unset" =>
                    defaults'.baseUrl = history'.last.update.baseUrl ]_vars

\* C25 witness: setDefaults({ baseUrl }) with two listeners of which the
\* first threw: the second was called with the new snapshot, which is stored
C25_Witness ==
    /\ Len(listeners) = 2
    /\ history.last.update.baseUrl = "https://api.custom.com"
    /\ history.last.notified =
          <<Notified(1, defaults, TRUE, TRUE), Notified(2, defaults, FALSE, FALSE)>>
    /\ history.last.returned
    /\ defaults.baseUrl = "https://api.custom.com"

\* the [name, value] pairs of a snapshot's headers and query parameters
C26_Headers(d) == d.headers.entries
C26_Params(d) == ParamsOf(d)

\* C26: an update that is not the identity leaves baseUrl and isResponseError
\* as they were when it does not hold them and sets them to its value when it
\* does; under the built-in header merge every header whose name the update
\* does not hold keeps its value, and under the built-in query merge the
\* entries whose key the update does not hold are kept, in their order.
C26_UnrelatedFieldsPersist ==
    [][(history'.updates = history.updates + 1 /\ ~IsSame(history'.last.update)) =>
          LET update == Resolved(history'.last.update, defaults)
              names == C17_Names(C17_Pairs(update.headers))
              keys == C16_Keys(C16_Pairs(update.searchParams))
          IN  /\ defaults'.baseUrl =
                    IF update.baseUrl = "unset" THEN defaults.baseUrl
                    ELSE update.baseUrl
              /\ defaults'.isResponseError =
                    IF update.isResponseError = "unset"
                    THEN defaults.isResponseError ELSE update.isResponseError
              /\ defaults'.mergeHeaders = "builtin" =>
                    \A i \in DOMAIN C26_Headers(defaults) :
                       C26_Headers(defaults)[i][1] \notin names =>
                          \E j \in DOMAIN C26_Headers(defaults') :
                             C26_Headers(defaults')[j] = C26_Headers(defaults)[i]
              /\ defaults'.mergeSearchParams = "builtin" =>
                    SelectSeq(C26_Params(defaults'),
                              LAMBDA pair : pair[1] \notin keys)
                    = SelectSeq(C26_Params(defaults),
                                LAMBDA pair : pair[1] \notin keys) ]_vars

\* C26 witness: after setDefaults({ baseUrl }) and then an update holding
\* only the header x-b, the base URL of the first update is still there
C26_Witness ==
    /\ history.updates = 2
    /\ history.last.update = [NoFields EXCEPT !.headers = <<<<"x-b", <<1>>>>>>]
    /\ defaults.baseUrl = "https://api.custom.com"
    /\ defaults.headers.entries = <<<<"x-b", <<1>>>>>>

\* a call's abort state and outcome come from its own wiring: a timeout only
\* with its own timer, a caller's reason only from its own signal, and no more
\* transport invocations than its own policy allows
C27_OwnWiring(ctx) ==
    /\ ctx.call.anySignal = "FetchClientTimeoutError" =>
          ctx.config.timeout # TimeoutOff
    /\ ctx.call.anySignal \in AbortReasons => ctx.signal = ctx.call.anySignal
    /\ ctx.call.calls <= 1 + (IF ctx.config.retry.active
                              THEN ctx.config.retry.limit ELSE 0)
    /\ ctx.call.pc = "rejected" =>
          /\ ctx.call.error.name = "FetchClientTimeoutError" =>
                ctx.config.timeout # TimeoutOff
          /\ ctx.call.error.name = "CustomReason" => ctx.signal = "CustomReason"

\* C27: of two calls made through one client, every step of one call (its
\* transport failing, a retry, its timer firing, its caller aborting, its
\* settling) leaves the other call as it was, attempt counter, abort state
\* and outcome included; the only other step is the event loop passing from
\* one call to the other; and each call's abort state, outcome and number of
\* transport invocations follow from its own signal, timeout and policy.
C27_CallsAreIndependent ==
    [][ /\ \/ peer' = peer
           \/ /\ peer' = Context(call, config, signal, locked)
              /\ Context(call', config', signal', locked') = peer
        /\ C27_OwnWiring(peer')
        /\ C27_OwnWiring(Context(call', config', signal', locked')) ]_vars

\* C27 witness: one call has timed out on its second transport invocation
\* and rejected, while the other call, made without a timeout, has resolved
\* after a single invocation
C27_Witness ==
    /\ peer.call.pc = "rejected"
    /\ peer.call.error.name = "FetchClientTimeoutError"
    /\ peer.call.calls = 2
    /\ call.pc = "resolved"
    /\ call.calls = 1
    /\ config.timeout = TimeoutOff

\* the attempt with index a is over
C28_Finished(a) == a < call.attempt \/ call.pc \in Terminal \cup {"delay"}

\* a post-receive hook threw during the attempt with index a
C28_HookThrew(a) ==
    \E i \in DOMAIN call.evals :
       call.evals[i][1] = a /\ call.evals[i][2].name = "AfterResponseHookError"

\* C28 (as claimed): on every attempt in which the transport returned a
\* response, the first attempt and every retry attempt alike, all registered
\* post-receive hooks have run in insertion order by the time the attempt is
\* over (unless one of them threw).
C28_HooksRunOnEveryAttempt ==
    \A a \in 0..call.attempt :
       (/\ a + 1 \in DOMAIN call.transportLog
        /\ call.transportLog[a + 1].outcome \in {"ok", "notok"}
        /\ C28_Finished(a)
        /\ ~C28_HookThrew(a))
          => C21_HooksRunAt(a) = hooks.afterResponse

\* C29 (as claimed): the retry predicate is invoked at most once for each
\* failed attempt, and never for the attempt whose index is the limit.
C29_RetryOnAtMostOncePerAttempt ==
    /\ \A i, j \in DOMAIN call.retryOnLog :
          call.retryOnLog[i][1] = call.retryOnLog[j][1] => i = j
    /\ \A i \in DOMAIN call.retryOnLog :
          call.retryOnLog[i][1] < config.retry.limit

\* C30 (as claimed): when a transport invocation returns a response that is
\* classified as an error and the body is a ReadableStream locked at that
\* moment, no further attempt is made, whatever the retry policy.
C30_LockedStreamErrorResponseNotRetried ==
    [][ (/\ call.pc = "inflight"
         /\ Len(call'.transportLog) = Len(call.transportLog) + 1
         /\ Last(call'.transportLog).outcome \in {"ok", "notok"}
         /\ isResponseError(call', call'.response)
         /\ config.body = "stream" /\ locked')
          => ~Retried ]_vars

\* C40: a timeout timer is armed only while the transport invocation that
\* started it is pending (never during hooks, the retry delay or after the
\* call has resolved or rejected); every invocation made with a timeout starts
\* with a timer and a signal of its own, not yet aborted by a timeout; the
\* settling of an invocation cancels its timer in the same step (a timer
\* armed after that step is the one of the next invocation, started in it);
\* and a signal is aborted by a timeout only through the timer of the pending
\* invocation.
C40_TimerPerAttempt ==
    /\ [](call.timerArmed => call.pc = "inflight")
    /\ [][ /\ call'.calls = call.calls + 1 =>
                /\ call'.anySignal # "FetchClientTimeoutError"
                /\ call'.timerArmed <=> config.timeout # TimeoutOff
           /\ (/\ Len(call'.transportLog) = Len(call.transportLog) + 1
               /\ call'.calls = call.calls) =>
                ~call'.timerArmed
           /\ (/\ call'.anySignal = "FetchClientTimeoutError"
               /\ call.anySignal # "FetchClientTimeoutError") =>
                /\ call.pc = "inflight" /\ call.timerArmed
                /\ call'.calls = call.calls
                /\ ~call'.timerArmed ]_vars

\* C40 witness: the first invocation timed out and its timer is gone while
\* the call waits for the retry delay; a timeout is configured
C40_Witness ==
    /\ config.timeout = DEFAULT_TIMEOUT
    /\ call.pc = "delay"
    /\ call.transportLog = <<Outcome("aborted", "FetchClientTimeoutError")>>
    /\ ~call.timerArmed

\* C34 (as claimed): when the transport in flight rejects with the custom
\* reason the caller aborted its signal with, the call rejects in the same
\* step with no retry evaluation, no predicate call, no delay and no further
\* transport invocation, whatever the retry policy.
C34_CustomAbortNotRetried ==
    [][ SettledWith(Outcome("aborted", "CustomReason")) =>
          /\ call'.pc = "rejected"
          /\ call'.error = Err("CustomReason", 0, 0)
          /\ NoRetryEvaluation ]_vars

\* the error the last transport invocation of the call ended with: what the
\* transport threw, the reason of its signal, or the record built from the
\* response as the post-receive hooks left it (or such a hook's exception)
C32_LastAttemptErrors ==
    LET o == Last(call.transportLog)
    IN  CASE o.outcome = "threw" -> {Err(o.error, call.calls, 0)}
          [] o.outcome = "aborted" -> {ReasonError(o.error, call.calls)}
          [] OTHER -> {FetchClientError(call.calls, call.request, call.response),
                       Err("AfterResponseHookError", call.calls, 0)}

\* C32 (as claimed): a call that has failed has rejected with the error of
\* its last attempt.
C32_RejectsWithLastAttemptError ==
    call.pc = "rejected" =>
       /\ call.calls >= 1
       /\ Len(call.transportLog) = call.calls
       /\ call.error \in C32_LastAttemptErrors

\* C32 (amended): a call that has failed after at least one transport
\* invocation has rejected with the error of its last attempt, which is also
\* the last error its catch handler saw; a call that has failed without any
\* transport invocation has rejected with what stopped it, a pre-send hook's
\* exception or the fall-through error of a loop that never ran.
C32_LastErrorVerbatim ==
    call.pc = "rejected" =>
       IF call.calls >= 1
       THEN /\ Len(call.transportLog) = call.calls
            /\ call.error \in C32_LastAttemptErrors
            /\ call.error = call.lastError
       ELSE /\ call.error.name \in {"BeforeRequestHookError", "UnknownFetchError"}
            /\ call.error.name = "UnknownFetchError" => maxAttempts < 0

\* C32 witness: the first attempt ended with a 404 response, the second with
\* a network error, and the call has rejected with the second one
C32_Witness ==
    /\ call.pc = "rejected"
    /\ call.transportLog = <<Outcome("notok", "none"), Outcome("threw", "NetworkError")>>
    /\ call.error = Err("NetworkError", 2, 0)

\* the configuration errors of fetch's defensive checks
C33_ConfigurationErrors ==
    {"No URL resolver defined in defaults.",
     "No searchParams merger defined in defaults.",
     "No headers merger defined in defaults."}

\* C33: after construction and after every sequence of setDefaults calls the
\* snapshot holds a function (the built-in one or one supplied) for the header
\* merge, the query merge and the URL resolver, and a fetch call made then
\* does not reject with one of the three configuration errors.
C33_StrategiesAlwaysDefined ==
    /\ defaults.mergeHeaders \in {"builtin"} \cup Strategies
    /\ defaults.mergeSearchParams \in {"builtin"} \cup Strategies
    /\ defaults.resolveUrl \in {"builtin"} \cup Resolvers
    /\ BuildRequest(IdleCall).error.name \notin C33_ConfigurationErrors

\* C33 witness: the second update held null for the header merge and no
\* headers; the built-in merge is in force
C33_Witness ==
    /\ history.updates = 2
    /\ history.last.update.mergeHeaders = "null"
    /\ defaults.mergeHeaders = "builtin"
    /\ history.last.update.headers = Undefined

\* the hooks of a kind the call has still to run
C31_Remaining(c, h, kind) ==
    IF kind = "beforeRequest"
    THEN SubSeq(h[kind], c.beforeIter + 1, Len(h[kind]))
    ELSE SubSeq(h[kind], c.afterIter + 1, Len(h[kind]))

\* C31 (as claimed): a hook added to or removed from a registry while the
\* call is running its hooks of that kind (it awaits one of them) does not
\* change which hooks of that kind the call has still to run.
C31_MembershipCopiedAtStart ==
    [][ \A kind \in HookKinds :
          (/\ call.pc = kind
           /\ hooks'[kind] # hooks[kind])
            => C31_Remaining(call', hooks', kind) = C31_Remaining(call, hooks, kind)
      ]_vars

\* C35 (as claimed): the URL object a call was given has the same query
\* string after the call was made as before it.
C35_CallerUrlUntouched ==
    (call.pc # "idle" /\ call.request # 0 /\ input.url.kind = "object") =>
        call.inputUrl.search = input.url.search

\* C36 (as claimed): a setDefaults call made during a call, at one of its
\* awaits, does not change the error predicate the call classifies its
\* responses with, nor the URL of its descriptor.
C36_DescriptorFixedAtBuild ==
    [][ (call.pc \in Awaits /\ defaults' # defaults) =>
          /\ ActivePredicate(call)' = ActivePredicate(call)
          /\ call'.url = call.url ]_vars

\* C37: a setDefaults call that an exception of the update function or of a
\* merge strategy leaves has stored nothing (the snapshot is the same object
\* with the same fields and strategies) and has notified no listener; one
\* that no exception leaves and that is not the identity stores a new
\* snapshot and notifies every listener.
C37_UpdateIsAllOrNothing ==
    [][ SetDefaultsCalled =>
          IF history'.last.thrown # "none"
          THEN /\ defaults' = defaults
               /\ history'.last.notified = <<>>
               /\ ~history'.last.returned
          ELSE /\ defaults'.id # defaults.id
               /\ Len(history'.last.notified) = Len(listeners) ]_vars

\* C37 witness: a first update stored a base URL; the second supplied a
\* query merge that threw after the header merge had run; the base URL and
\* the empty headers are still stored, and the listener got nothing
C37_Witness ==
    /\ history.updates = 2
    /\ history.last.thrown = "mergeSearchParams"
    /\ Len(history.last.merges) = 1
    /\ defaults.baseUrl = "https://api.custom.com"
    /\ defaults.headers.entries = <<>>
    /\ Len(listeners) = 1
    /\ history.last.notified = <<>>

\* the listener calls a setDefaults call made, nested ones included, that
\* went to the listener
C38_CallsOf(listener) ==
    SelectSeq(history.last.notified, LAMBDA n : n.listener = listener)

\* C38 (as claimed): once the outermost setDefaults call has returned, the
\* snapshot each registered listener was given last is the snapshot stored.
C38_LatestNotificationIsCurrent ==
    \A i \in DOMAIN listeners :
       C38_CallsOf(listeners[i]) # <<>> =>
          Last(C38_CallsOf(listeners[i])).snapshot = defaults.id

\* C39 (as claimed): a listener registered with addOnceEventListener is
\* called at most once, nested dispatches included, and is not registered any
\* more once it has been called.
C39_OnceListenerCalledOnce ==
    \A n \in Members(history.last.notified) :
       IsOnce(n.listener) =>
          /\ Len(C38_CallsOf(n.listener)) <= 1
          /\ n.listener \notin Members(listeners)

====
